---- MODULE Spec2Model ----
(* Authentication and session core of PhotoShare_fastapi: the users,      *)
(* refresh_tokens and logout_access_tokens tables, the Redis snapshot of  *)
(* users keyed by email, the JWT codec, and the handlers of               *)
(* src/routes/auth.py and src/routes/users.py.                            *)
EXTENDS Integers, Sequences, FiniteSets, TLC

VARIABLES
    users,          \* table users (src/database/models.py User)
    refreshTokens,  \* table refresh_tokens
    logoutTokens,   \* table logout_access_tokens
    cache,          \* Redis: entries user:<email> -> pickled User, with expiry
    now,            \* the clock read by datetime.utcnow(), in seconds
    nextUserId,     \* next value of the users.id sequence
    nextSession,    \* stands for the next uuid4 drawn by create_access_token
    issued,         \* token pairs handed to clients, with the user they were issued to
    loggedOut,      \* access tokens presented to a successful logout
    resp,           \* the last request and its response (status 0 until it is sent)
    steps,          \* number of requests and manage.py runs so far
    pc,             \* position of each in-flight request
    loc,            \* locals of each in-flight request
    committed,      \* time of the last committed change of role or is_active, per user id
    photos,         \* table photos, each row with the ids of its tags (photo_m2m_tag)
    comments,       \* table comments
    tags,           \* table tags
    ratings,        \* table ratings
    nextId          \* next value of the id sequence of each of these four tables

\* The tables of the content: photos, comments, tags, ratings.
content == <<photos, comments, tags, ratings, nextId>>

vars == <<users, refreshTokens, logoutTokens, cache, now, nextUserId,
          nextSession, issued, loggedOut, resp, steps, pc, loc, committed, content>>

----------------------------------------------------------------------------
(* Bounds of the model *)

MaxUsers == 2
MaxSessions == 2
MaxTicks == 2
MaxSteps == 3
SessionSteps == 4
ViewSteps == 2
RedisDownSteps == 3
RaceSessions == 3
StaleSessions == 2
StaleSteps == 2
Latency == 2
MaxPhotos == 1
MaxComments == 1
ContentSteps == 3

(* Program constants, src/conf/constants.py *)

ROLE_ADMIN == "admin"
ROLE_MODERATOR == "moderator"
ROLE_STANDARD == "standard"
ACCESS_TOKEN == "access_token"
REFRESH_TOKEN == "refresh_token"
INVALID_SCOPE == "Invalid scope"
COULD_NOT_VALIDATE_CREDENTIALS == "Could not validate credentials"
LOG_IN_AGAIN == "You need to log in again"
INCORRECT_USERNAME_OR_PASSWORD == "Incorrect username or password"
FORBIDDEN_OPERATION_ON_ADMIN_ACCOUNT == "Only admin can perform operations on users with admin role."
FORBIDDEN_FOR_USER == "Only admin or moderator can perform this operation."
FORBIDDEN_FOR_USER_AND_MODERATOR == "Only admin can perform this operation."
BANNED_USER == "User is banned."
TOKEN_NOT_FOUND == "Token not found"
USER_NOT_FOUND == "User not found"
USERNAME_EXISTS == "User with this username already exists"
EMAIL_EXISTS == "User with this email already exists"
USER_CREATED == "User successfully created"
USER_LOGOUT == "User logged out"
USER_UPDATE == "User updated"
USER_DELETE == "User deleted"

\* services/photo_storage_provider.py, the detail of a failed delete
PHOTO_STORAGE_ERROR == "Photo storage provider error"

REDIS_EXPIRE == 60 * 15
ACCESS_TOKEN_EXPIRE == 15
REFRESH_TOKEN_EXPIRE == 7

\* timedelta(minutes=m) and timedelta(days=d), in seconds
Minutes(m) == m * 60
Days(d) == d * 24 * 60 * 60

(* Inputs *)

Emails == {"a@x", "b@x"}
Usernames == {"root", "bob"}
Passwords == {"Passw0rd!", "Wr0ng-pw"}
UserIns == [username : Usernames, email : Emails, password : {"Passw0rd!"}]

\* Variant: set_role takes every role of UserRoleEnum.
UserRoleEnum == {ROLE_ADMIN, ROLE_MODERATOR, ROLE_STANDARD}

\* schemas/users.py UserRoleInEnum
UserRoleInEnum == {ROLE_MODERATOR, ROLE_STANDARD}
AvatarUrls == {"https://res.cloudinary.com/avatar/1"}

\* What the photo storage provider does with the calls of a request: it
\* serves them, or its upload raises, or its delete raises.
StorageOutcomes == {"ok", "upload_error", "delete_error"}

\* The clock moves by a few minutes, or past the lifetime of a refresh token.
ShortStep == Minutes(8)
LongStep == Days(REFRESH_TOKEN_EXPIRE) + ShortStep
TimeSteps == {ShortStep, LongStep}
ClockValues == {a * ShortStep + b * LongStep : <<a, b>> \in
                  {p \in (0..MaxTicks) \X (0..MaxTicks) : p[1] + p[2] <= MaxTicks}}

----------------------------------------------------------------------------
(* Password handler, src/services/password.py *)

get_password_hash(password) == [bcrypt |-> password]

verify_password(plain_password, hashed_password) ==
    hashed_password = [bcrypt |-> plain_password]

----------------------------------------------------------------------------
(* Token codec, src/services/auth.py.  A token is the claims it carries    *)
(* and whether it is signed with SECRET_KEY.                               *)

create_access_token(email, session_id) ==
    [sub |-> email, iat |-> now, exp |-> now + Minutes(ACCESS_TOKEN_EXPIRE),
     session_id |-> session_id, scope |-> ACCESS_TOKEN, signed |-> TRUE]

\* Variant: the refresh token draws a session id of its own.
create_refresh_token_own_session(email, session_id) ==
    [sub |-> email, iat |-> now, exp |-> now + Days(REFRESH_TOKEN_EXPIRE),
     session_id |-> session_id + 1, scope |-> REFRESH_TOKEN, signed |-> TRUE]

create_refresh_token(email, session_id) ==
    [sub |-> email, iat |-> now, exp |-> now + Days(REFRESH_TOKEN_EXPIRE),
     session_id |-> session_id, scope |-> REFRESH_TOKEN, signed |-> TRUE]

\* A string that is not a token signed by this server.
WrongToken ==
    [sub |-> "a@x", iat |-> 0, exp |-> 0, session_id |-> 0,
     scope |-> ACCESS_TOKEN, signed |-> FALSE]

\* Variant: the expiry is not verified.
jwt_decode_no_expiry(token) == token.signed

\* jwt.decode: raises JWTError on a bad signature or an expiry in the past.
jwt_decode_ok(token) == token.signed /\ ~(token.exp < now)

----------------------------------------------------------------------------
(* Repository, src/repository/users.py *)

\* What a query of a Session returns for the rows its statement selects: a
\* row whose id the identity map of the Session holds comes back as the
\* object that was loaded before, with the attributes it was loaded with.
Loaded(session, rows) ==
    {IF \E s \in session : s.id = u.id
     THEN CHOOSE s \in session : s.id = u.id ELSE u : u \in rows}

\* The row the flush of a commit leaves: the UPDATE names the attributes
\* that were assigned a value other than the loaded one.
Flushed(stored, loaded, assigned) ==
    [f \in DOMAIN stored |->
        IF f \in DOMAIN assigned /\ assigned[f] # loaded[f]
        THEN assigned[f] ELSE stored[f]]

get_user_by_email(email) == {u \in users : u.email = email}

get_user_by_username(username) == {u \in users : u.username = username}

get_user_by_id(user_id) == {u \in users : u.id = user_id}

\* The orders in which a SELECT without ORDER BY may return the rows of a
\* table: the statement names none, and the store is free to pick.
Orders(table) ==
    {s \in [1..Cardinality(table) -> table] :
        \A i, j \in DOMAIN s : s[i] = s[j] => i = j}

\* query(User).offset(skip).limit(limit).all(), the store returning the rows
\* in this order.
get_users_rows(skip, limit, order) ==
    LET last == IF skip + limit < Len(order) THEN skip + limit ELSE Len(order)
    IN  SubSeq(order, skip + 1, last)

\* AvatarProviderGravatar.get_avatar: the Gravatar url of the email (the
\* hash of the email is written as the email itself; the size is left out).
get_avatar(email) ==
    IF email = "a@x" THEN "https://www.gravatar.com/avatar/a@x"
    ELSE "https://www.gravatar.com/avatar/b@x"

\* avatar.startswith(DEFAULT_AVATAR_URL_START_V1_GRAVATAR)
is_gravatar(avatar) == avatar \in {get_avatar(e) : e \in Emails}

create_user(user, user_id) ==
    [id |-> user_id, username |-> user.username, email |-> user.email,
     password |-> user.password, role |-> ROLE_STANDARD, is_active |-> TRUE,
     avatar |-> get_avatar(user.email)]

\* manage.py __add_admin_to_db
create_admin(username, email, password, user_id) ==
    [id |-> user_id, username |-> username, email |-> email,
     password |-> get_password_hash(password), role |-> ROLE_ADMIN,
     is_active |-> TRUE, avatar |-> get_avatar(email)]

\* The unique constraints of the users table (username, email).
UsersUnique(table) ==
    \A u, v \in table :
        (u.id # v.id) => (u.username # v.username /\ u.email # v.email)

add_refresh_token(table, user_id, token, expiration_date, session_id) ==
    table \cup {[refresh_token |-> token, user_id |-> user_id,
                 session_id |-> session_id, expires_at |-> expiration_date]}

\* The row delete_refresh_token looks for.
find_refresh_token(table, token, user_id) ==
    {row \in table : row.refresh_token = token /\ row.user_id = user_id}

\* Variant: the session id is left out of the filter.
find_session_of_user(table, session_id, user_id) ==
    {row \in table : row.user_id = user_id}

\* The row logout_user looks for.
find_session(table, session_id, user_id) ==
    {row \in table : row.session_id = session_id /\ row.user_id = user_id}

is_user_logout(token) ==
    \E row \in logoutTokens : row.logout_access_token = token

\* manage.py __delete_exp_tokens
delete_exp_tokens(table) == {row \in table : ~(row.expires_at < now)}

----------------------------------------------------------------------------
(* Redis, src/services/auth.py *)

\* The time to live of a key that has none (the reply of the TTL command).
NO_EXPIRY == -1

\* The entries that are still there at time t.
redis_at(c, t) == {e \in c : e.expires = NO_EXPIRY \/ e.expires > t}

redis_get(c, email) == {e \in redis_at(c, now) : e.key = email}

\* The commands the handlers send, one await each.
SET(email, user) == [cmd |-> "SET", key |-> email, user |-> {user}]
EXPIRE(email) == [cmd |-> "EXPIRE", key |-> email, user |-> {}]
DELETE(email) == [cmd |-> "DELETE", key |-> email, user |-> {}]

\* r.set(key, value) stores the value without a time to live, r.expire(key,
\* REDIS_EXPIRE) gives the key one if it is there, r.delete(key) drops it.
redis_command(c, command) ==
    IF command.cmd = "SET"
    THEN {e \in c : e.key # command.key}
             \cup {[key |-> command.key, user |-> u, expires |-> NO_EXPIRY] :
                       u \in command.user}
    ELSE IF command.cmd = "EXPIRE"
    THEN {IF e.key = command.key THEN [e EXCEPT !.expires = now + REDIS_EXPIRE]
          ELSE e : e \in c}
    ELSE {e \in c : e.key # command.key}

RECURSIVE redis_apply(_, _)
redis_apply(c, commands) ==
    IF commands = <<>> THEN c
    ELSE redis_apply(redis_command(c, Head(commands)), Tail(commands))

\* Auth.update_user_in_redis: r.set, then r.expire.
update_user_in_redis_commands(email, user) == <<SET(email, user), EXPIRE(email)>>

update_user_in_redis(c, email, user) ==
    redis_apply(c, update_user_in_redis_commands(email, user))

\* Auth.delete_user_from_redis: r.delete.
delete_user_from_redis_commands(email) == <<DELETE(email)>>

----------------------------------------------------------------------------
(* Responses.  A result carries the response and the tables as the handler *)
(* leaves them.                                                            *)

Keep(status, detail) ==
    [status |-> status, detail |-> detail, uid |-> 0, pairs |-> {},
     users |-> users, refreshTokens |-> refreshTokens,
     logoutTokens |-> logoutTokens, cache |-> cache,
     comments |-> comments, ratings |-> ratings, redis |-> <<>>]

KeepWith(status, detail, c) == [Keep(status, detail) EXCEPT !.cache = c]

\* The result r of a handler that sends these commands to Redis after its
\* commit, the cache being c before them.
ThenRedis(r, c, commands) ==
    [r EXCEPT !.redis = commands, !.cache = redis_apply(c, commands)]

----------------------------------------------------------------------------
\* Variant: the scope error is caught by the handler of the JWT error.
decode_refresh_token_catch_all(token) ==
    IF jwt_decode_ok(token) /\ token.scope = REFRESH_TOKEN
    THEN [status |-> 200, detail |-> <<>>, email |-> token.sub]
    ELSE [status |-> 401, detail |-> <<COULD_NOT_VALIDATE_CREDENTIALS>>, email |-> ""]

(* Auth.decode_refresh_token: the email of a refresh token, or the error.  *)

decode_refresh_token(token) ==
    IF ~jwt_decode_ok(token)
    THEN [status |-> 401, detail |-> <<COULD_NOT_VALIDATE_CREDENTIALS>>, email |-> ""]
    ELSE IF token.scope = REFRESH_TOKEN
    THEN [status |-> 200, detail |-> <<>>, email |-> token.sub]
    ELSE [status |-> 401, detail |-> <<INVALID_SCOPE>>, email |-> ""]

(* Auth.get_current_user: the principal of an access token (a set of at    *)
(* most one user), or the error, the cache as the call leaves it, and the  *)
(* identity map of the Session of the request: get_user_repository hands   *)
(* get_current_user and the route the same PostgresUserRepo, and the user  *)
(* get_user_by_email loads on a cache miss stays in its Session; the user  *)
(* unpickled on a hit belongs to no Session.                               *)

\* Lines 182-186: the blacklist and is_active of the user that was found.
check_current_user(token, user, session, c) ==
    IF is_user_logout(token)
    THEN [status |-> 401, detail |-> <<LOG_IN_AGAIN>>, user |-> {},
          session |-> session, cache |-> c]
    ELSE IF ~user.is_active
    THEN [status |-> 403, detail |-> <<BANNED_USER>>, user |-> {},
          session |-> session, cache |-> c]
    ELSE [status |-> 200, detail |-> <<>>, user |-> {user},
          session |-> session, cache |-> c]

get_current_user(token) ==
    IF ~jwt_decode_ok(token) \/ token.scope # ACCESS_TOKEN
    THEN [status |-> 401, detail |-> <<COULD_NOT_VALIDATE_CREDENTIALS>>,
          user |-> {}, session |-> {}, cache |-> cache]
    ELSE
      LET email == token.sub
          cached == redis_get(cache, email)
          stored == get_user_by_email(email)
      IN  IF cached = {} /\ stored = {}
          THEN [status |-> 401,
                detail |-> <<COULD_NOT_VALIDATE_CREDENTIALS, ", email: ", email>>,
                user |-> {}, session |-> {}, cache |-> cache]
          ELSE
            LET user == IF cached = {} THEN CHOOSE u \in stored : TRUE
                        ELSE (CHOOSE e \in cached : TRUE).user
                c1 == IF cached = {} THEN update_user_in_redis(cache, email, user)
                      ELSE cache
            IN  check_current_user(token, user,
                                   IF cached = {} THEN stored ELSE {}, c1)

(* Auth.get_session_id_from_token *)

get_session_id_from_token(token, user_email) ==
    IF ~jwt_decode_ok(token) \/ token.scope # ACCESS_TOKEN \/ token.sub # user_email
    THEN [status |-> 401, detail |-> <<COULD_NOT_VALIDATE_CREDENTIALS>>, session_id |-> 0]
    ELSE [status |-> 200, detail |-> <<>>, session_id |-> token.session_id]

----------------------------------------------------------------------------
(* Handlers of src/routes/auth.py *)

\* __set_tokens: a new session id, both tokens bound to it, and the row.
set_tokens(user, table, c) ==
    LET session_id == nextSession
        access_token == create_access_token(user.email, session_id)
        refresh_token == create_refresh_token(user.email, session_id)
    IN  [Keep(200, <<>>) EXCEPT
            !.uid = user.id,
            !.pairs = {[access |-> access_token, refresh |-> refresh_token,
                        owner |-> user.id, parent |-> {}]},
            !.refreshTokens = add_refresh_token(table, user.id, refresh_token,
                                                refresh_token.exp, session_id),
            !.cache = c]

signup(body) ==
    IF get_user_by_email(body.email) # {}
    THEN Keep(409, <<"Account with this email already exists">>)
    ELSE IF get_user_by_username(body.username) # {}
    THEN Keep(409, <<"Account with this username already exists">>)
    ELSE
      LET hashed == [body EXCEPT !.password = get_password_hash(body.password)]
          user == create_user(hashed, nextUserId)
      IN  [Keep(201, <<USER_CREATED>>) EXCEPT
              !.uid = user.id, !.users = users \cup {user}]

\* Variant: an unknown email is reported as such.
login_reveals_email(username, password) ==
    LET found == get_user_by_email(username) IN
    IF found = {}
    THEN Keep(404, <<USER_NOT_FOUND>>)
    ELSE
      LET user == CHOOSE u \in found : TRUE IN
      IF ~verify_password(password, user.password)
      THEN Keep(401, <<INCORRECT_USERNAME_OR_PASSWORD>>)
      ELSE IF ~user.is_active
      THEN Keep(403, <<BANNED_USER>>)
      ELSE set_tokens(user, refreshTokens, cache)

\* Variant: is_active is not looked at.
login_without_ban_check(username, password) ==
    LET found == get_user_by_email(username) IN
    IF found = {}
    THEN Keep(401, <<INCORRECT_USERNAME_OR_PASSWORD>>)
    ELSE
      LET user == CHOOSE u \in found : TRUE IN
      IF ~verify_password(password, user.password)
      THEN Keep(401, <<INCORRECT_USERNAME_OR_PASSWORD>>)
      ELSE set_tokens(user, refreshTokens, cache)

login(username, password) ==
    LET found == get_user_by_email(username) IN
    IF found = {}
    THEN Keep(401, <<INCORRECT_USERNAME_OR_PASSWORD>>)
    ELSE
      LET user == CHOOSE u \in found : TRUE IN
      IF ~verify_password(password, user.password)
      THEN Keep(401, <<INCORRECT_USERNAME_OR_PASSWORD>>)
      ELSE IF ~user.is_active
      THEN Keep(403, <<BANNED_USER>>)
      ELSE set_tokens(user, refreshTokens, cache)

\* The email the route reads from the user after the commit of the
\* repository, as a set: the commit expires the objects of the Session, and
\* a user that belongs to it is read again from the store by its id (none
\* when its row is gone and the read raises); a user that belongs to no
\* Session keeps the email it was unpickled with.
email_after_commit(user, session, table) ==
    IF user \in session THEN {u.email : u \in {v \in table : v.id = user.id}}
    ELSE {user.email}

\* A logout that inserts the blacklist row before it looks the session up.
logout_blacklist_before_lookup(cur, token) ==
    IF cur.status # 200 THEN KeepWith(cur.status, cur.detail, cur.cache)
    ELSE
    LET current_user == CHOOSE u \in cur.user : TRUE
        c == cur.cache
    IN
    LET sid == get_session_id_from_token(token, current_user.email) IN
    IF sid.status # 200 THEN KeepWith(sid.status, sid.detail, c)
    ELSE
      LET rows == find_session(refreshTokens, sid.session_id, current_user.id)
          listed == logoutTokens \cup
                        {[logout_access_token |-> token,
                          expires_at |-> now + Minutes(ACCESS_TOKEN_EXPIRE)]}
          emails == email_after_commit(current_user, cur.session, users)
      IN  IF rows = {}
          THEN [KeepWith(404, <<TOKEN_NOT_FOUND>>, c) EXCEPT
                  !.logoutTokens = listed]
          ELSE LET r == [Keep(200, <<USER_LOGOUT>>) EXCEPT
                            !.uid = current_user.id,
                            !.refreshTokens = refreshTokens \ {CHOOSE r \in rows : TRUE},
                            !.logoutTokens = listed]
               IN  IF emails = {}
                   THEN [r EXCEPT !.status = 500, !.detail = <<"ObjectDeletedError">>,
                                  !.cache = c]
                   ELSE ThenRedis(r, c, delete_user_from_redis_commands(
                                            CHOOSE e \in emails : TRUE))

\* PostgresUserRepo.logout_user and the rest of the logout handler.
logout_route(cur, token) ==
    IF cur.status # 200 THEN KeepWith(cur.status, cur.detail, cur.cache)
    ELSE
    LET current_user == CHOOSE u \in cur.user : TRUE
        c == cur.cache
    IN
    LET sid == get_session_id_from_token(token, current_user.email) IN
    IF sid.status # 200 THEN KeepWith(sid.status, sid.detail, c)
    ELSE
      LET rows == find_session(refreshTokens, sid.session_id, current_user.id)
          emails == email_after_commit(current_user, cur.session, users)
      IN
      IF rows = {}
      THEN KeepWith(404, <<TOKEN_NOT_FOUND>>, c)
      ELSE LET r == [Keep(200, <<USER_LOGOUT>>) EXCEPT
                        !.uid = current_user.id,
                        !.refreshTokens = refreshTokens \ {CHOOSE r \in rows : TRUE},
                        !.logoutTokens = logoutTokens \cup
                            {[logout_access_token |-> token,
                              expires_at |-> now + Minutes(ACCESS_TOKEN_EXPIRE)]}]
           IN  IF emails = {}
               THEN [r EXCEPT !.status = 500, !.detail = <<"ObjectDeletedError">>,
                              !.cache = c]
               ELSE ThenRedis(r, c, delete_user_from_redis_commands(
                                        CHOOSE e \in emails : TRUE))

logout(token) == logout_route(get_current_user(token), token)

\* refresh_token with PostgresUserRepo.delete_refresh_token.
refresh_token(old_refresh_token) ==
    LET dec == decode_refresh_token(old_refresh_token) IN
    IF dec.status # 200 THEN Keep(dec.status, dec.detail)
    ELSE
      LET found == get_user_by_email(dec.email) IN
      IF found = {} THEN Keep(404, <<USER_NOT_FOUND>>)
      ELSE
        LET user == CHOOSE u \in found : TRUE
            rows == find_refresh_token(refreshTokens, old_refresh_token, user.id)
        IN  IF rows = {} THEN Keep(404, <<TOKEN_NOT_FOUND>>)
            ELSE
              LET r == set_tokens(user, refreshTokens \ rows, cache) IN
              [r EXCEPT !.pairs =
                  {[pr EXCEPT !.parent = {old_refresh_token}] : pr \in r.pairs}]

----------------------------------------------------------------------------
(* Handlers of src/routes/users.py.  The repository of a route reads the   *)
(* users through the Session of the request (Loaded) and its commit writes *)
(* the attributes that were given a new value (Flushed).                   *)

\* The response models of src/schemas/users.py, as the fields they keep of
\* a user (created_at, which all three keep, is not modelled).
Project(user, fields) == [f \in fields |-> user[f]]

UserDb(user) ==
    Project(user, {"id", "username", "email", "role", "avatar", "is_active"})

UserPublic(user) == Project(user, {"id", "username", "avatar"})

UserModeratorView(user) == Project(user, {"id", "username", "avatar", "is_active"})

\* A response with a body.
WithBody(status, detail, body, c) ==
    [status |-> status, detail |-> detail, body |-> body, cache |-> c]

\* get_users; order is the order the store returns the rows of users in.
get_users_route(cur, skip, limit, order) ==
    IF cur.status # 200 THEN WithBody(cur.status, cur.detail, <<>>, cur.cache)
    ELSE
      LET current_user == CHOOSE u \in cur.user : TRUE
          selected == get_users_rows(skip, limit, order)
          rows == [i \in DOMAIN selected |->
                      CHOOSE u \in Loaded(cur.session, {selected[i]}) : TRUE]
      IN  IF current_user.role = ROLE_ADMIN
          THEN WithBody(200, <<>>, [i \in DOMAIN rows |-> UserDb(rows[i])], cur.cache)
          ELSE IF current_user.role = ROLE_MODERATOR
          THEN WithBody(200, <<>>,
                        [i \in DOMAIN rows |-> UserModeratorView(rows[i])], cur.cache)
          ELSE WithBody(200, <<>>, [i \in DOMAIN rows |-> UserPublic(rows[i])], cur.cache)

get_users(token, skip, limit, order) ==
    get_users_route(get_current_user(token), skip, limit, order)

\* Variant: the caller's own record is not told apart.
get_user_by_role_only(cur, user_id) ==
    IF cur.status # 200 THEN WithBody(cur.status, cur.detail, <<>>, cur.cache)
    ELSE
      LET current_user == CHOOSE u \in cur.user : TRUE
          found == get_user_by_id(user_id)
      IN  IF found = {} THEN WithBody(404, <<USER_NOT_FOUND>>, <<>>, cur.cache)
          ELSE
            LET user == CHOOSE u \in Loaded(cur.session, found) : TRUE IN
            IF current_user.role = ROLE_ADMIN
            THEN WithBody(200, <<>>, UserDb(user), cur.cache)
            ELSE IF current_user.role = ROLE_MODERATOR
            THEN WithBody(200, <<>>, UserModeratorView(user), cur.cache)
            ELSE WithBody(200, <<>>, UserPublic(user), cur.cache)

get_user_route(cur, user_id) ==
    IF cur.status # 200 THEN WithBody(cur.status, cur.detail, <<>>, cur.cache)
    ELSE
      LET current_user == CHOOSE u \in cur.user : TRUE
          found == get_user_by_id(user_id)
      IN  IF found = {} THEN WithBody(404, <<USER_NOT_FOUND>>, <<>>, cur.cache)
          ELSE
            LET user == CHOOSE u \in Loaded(cur.session, found) : TRUE IN
            IF current_user.role = ROLE_ADMIN \/ current_user.id = user_id
            THEN WithBody(200, <<>>, UserDb(user), cur.cache)
            ELSE IF current_user.role = ROLE_MODERATOR
            THEN WithBody(200, <<>>, UserModeratorView(user), cur.cache)
            ELSE WithBody(200, <<>>, UserPublic(user), cur.cache)

get_user(token, user_id) == get_user_route(get_current_user(token), user_id)

\* update_user with PostgresUserRepo.update_user; the password is hashed
\* with a new salt and always written; a commit that breaks a unique
\* constraint of the users table raises and is rolled back.
update_user_route(cur, new_user_data) ==
    IF cur.status # 200 THEN KeepWith(cur.status, cur.detail, cur.cache)
    ELSE
    LET current_user == CHOOSE u \in cur.user : TRUE
        c == cur.cache
    IN
    IF /\ new_user_data.username # current_user.username
       /\ get_user_by_username(new_user_data.username) # {}
    THEN KeepWith(409, <<USERNAME_EXISTS>>, c)
    ELSE IF /\ new_user_data.email # current_user.email
            /\ get_user_by_email(new_user_data.email) # {}
    THEN KeepWith(409, <<EMAIL_EXISTS>>, c)
    ELSE
      LET found == get_user_by_id(current_user.id) IN
      IF found = {} THEN KeepWith(404, <<USER_NOT_FOUND>>, c)
      ELSE
        LET old == CHOOSE u \in found : TRUE
            loaded == CHOOSE u \in Loaded(cur.session, found) : TRUE
            user == [Flushed(old, loaded,
                             [username |-> new_user_data.username,
                              email |-> new_user_data.email])
                        EXCEPT !.password = get_password_hash(new_user_data.password)]
            table == (users \ {old}) \cup {user}
        IN  IF ~UsersUnique(table)
            THEN KeepWith(500, <<"IntegrityError">>, c)
            ELSE ThenRedis(
                   [Keep(200, <<USER_UPDATE>>) EXCEPT
                      !.uid = user.id, !.users = table],
                   c, update_user_in_redis_commands(user.email, user))

update_user(token, new_user_data) == update_user_route(get_current_user(token), new_user_data)

\* update_user_avatar with PostgresUserRepo.update_user_avatar; the url is
\* the one upload_avatar returns for the file, and the avatar the caller had
\* is deleted from the storage unless it is the Gravatar one; either call
\* raises PhotoStorageProviderError before the store is touched.
update_user_avatar_route(cur, new_avatar_url, storage) ==
    IF cur.status # 200 THEN KeepWith(cur.status, cur.detail, cur.cache)
    ELSE
    LET current_user == CHOOSE u \in cur.user : TRUE
        c == cur.cache
    IN
    IF storage = "upload_error" THEN KeepWith(502, <<>>, c)
    ELSE IF storage = "delete_error" /\ ~is_gravatar(current_user.avatar)
    THEN KeepWith(502, <<PHOTO_STORAGE_ERROR>>, c)
    ELSE
    LET found == get_user_by_id(current_user.id) IN
    IF found = {} THEN KeepWith(404, <<USER_NOT_FOUND>>, c)
    ELSE
      LET old == CHOOSE u \in found : TRUE
          loaded == CHOOSE u \in Loaded(cur.session, found) : TRUE
          user == Flushed(old, loaded, [avatar |-> new_avatar_url])
      IN  ThenRedis(
            [Keep(200, <<USER_UPDATE>>) EXCEPT
               !.uid = user.id, !.users = (users \ {old}) \cup {user}],
            c, update_user_in_redis_commands(user.email, user))

update_user_avatar(token, new_avatar_url, storage) ==
    update_user_avatar_route(get_current_user(token), new_avatar_url, storage)

\* delete_user with PostgresUserRepo.delete_user; the refresh tokens, the
\* comments and the ratings of the user go with it (cascade of the
\* relationships of User); the photos of the user do not (Photo.user has no
\* cascade), their user_id cannot be null, and the commit fails unhandled.
\* The key dropped from Redis is the email of the object the Session held.
delete_user_route(cur, user_id) ==
    IF cur.status # 200 THEN KeepWith(cur.status, cur.detail, cur.cache)
    ELSE
    LET current_user == CHOOSE u \in cur.user : TRUE
        c == cur.cache
    IN
    IF current_user.role = ROLE_ADMIN \/ current_user.id = user_id
    THEN
      LET found == get_user_by_id(user_id) IN
      IF found = {} THEN KeepWith(404, <<USER_NOT_FOUND>>, c)
      ELSE
        LET user == CHOOSE u \in found : TRUE
            loaded == CHOOSE u \in Loaded(cur.session, found) : TRUE
        IN
        IF \E p \in photos : p.user_id = user.id
        THEN KeepWith(500, <<"IntegrityError">>, c)
        ELSE ThenRedis(
               [Keep(200, <<USER_DELETE>>) EXCEPT
                  !.uid = user.id,
                  !.users = users \ {user},
                  !.refreshTokens = {r \in refreshTokens : r.user_id # user.id},
                  !.comments = {x \in comments : x.user_id # user.id},
                  !.ratings = {r \in ratings : r.user_id # user.id}],
               c, delete_user_from_redis_commands(loaded.email))
    ELSE KeepWith(403, <<FORBIDDEN_FOR_USER_AND_MODERATOR>>, c)

delete_user(token, user_id) == delete_user_route(get_current_user(token), user_id)

\* Variant: the route checks admin-or-self, as delete_user does.
set_active_status_admin_or_self(cur, user_id, is_active) ==
    IF cur.status # 200 THEN KeepWith(cur.status, cur.detail, cur.cache)
    ELSE
    LET current_user == CHOOSE u \in cur.user : TRUE
        c == cur.cache
    IN
    IF current_user.role # ROLE_ADMIN /\ current_user.id # user_id
    THEN KeepWith(403, <<FORBIDDEN_FOR_USER>>, c)
    ELSE
      LET found == get_user_by_id(user_id) IN
      IF found = {} THEN KeepWith(404, <<USER_NOT_FOUND>>, c)
      ELSE
        LET old == CHOOSE u \in found : TRUE
            loaded == CHOOSE u \in Loaded(cur.session, found) : TRUE
        IN
        IF loaded.role = ROLE_ADMIN /\ current_user.role = ROLE_MODERATOR
        THEN KeepWith(403, <<FORBIDDEN_OPERATION_ON_ADMIN_ACCOUNT>>, c)
        ELSE [Keep(200, <<"User status set to ",
                          IF is_active THEN "active" ELSE "banned", ".">>) EXCEPT
                !.uid = old.id,
                !.users = (users \ {old}) \cup
                              {Flushed(old, loaded, [is_active |-> is_active])},
                !.cache = c]

\* set_active_status with PostgresUserRepo.set_user_active_status.
set_active_status_route(cur, user_id, is_active) ==
    IF cur.status # 200 THEN KeepWith(cur.status, cur.detail, cur.cache)
    ELSE
    LET current_user == CHOOSE u \in cur.user : TRUE
        c == cur.cache
    IN
    IF current_user.role \notin {ROLE_ADMIN, ROLE_MODERATOR}
    THEN KeepWith(403, <<FORBIDDEN_FOR_USER>>, c)
    ELSE
      LET found == get_user_by_id(user_id) IN
      IF found = {} THEN KeepWith(404, <<USER_NOT_FOUND>>, c)
      ELSE
        LET old == CHOOSE u \in found : TRUE
            loaded == CHOOSE u \in Loaded(cur.session, found) : TRUE
        IN
        IF loaded.role = ROLE_ADMIN /\ current_user.role = ROLE_MODERATOR
        THEN KeepWith(403, <<FORBIDDEN_OPERATION_ON_ADMIN_ACCOUNT>>, c)
        ELSE [Keep(200, <<"User status set to ",
                          IF is_active THEN "active" ELSE "banned", ".">>) EXCEPT
                !.uid = old.id,
                !.users = (users \ {old}) \cup
                              {Flushed(old, loaded, [is_active |-> is_active])},
                !.cache = c]

set_active_status(token, user_id, is_active) == set_active_status_route(get_current_user(token), user_id, is_active)

\* set_role with PostgresUserRepo.set_user_role.
set_role_route(cur, user_id, role) ==
    IF cur.status # 200 THEN KeepWith(cur.status, cur.detail, cur.cache)
    ELSE
    LET current_user == CHOOSE u \in cur.user : TRUE
        c == cur.cache
    IN
    IF current_user.role # ROLE_ADMIN
    THEN KeepWith(403, <<FORBIDDEN_FOR_USER_AND_MODERATOR>>, c)
    ELSE
      LET found == get_user_by_id(user_id) IN
      IF found = {} THEN KeepWith(404, <<USER_NOT_FOUND>>, c)
      ELSE
        LET old == CHOOSE u \in found : TRUE
            loaded == CHOOSE u \in Loaded(cur.session, found) : TRUE
            user == Flushed(old, loaded, [role |-> role])
        IN  ThenRedis(
              [Keep(200, <<"User role set to ", user.role, ".">>) EXCEPT
                 !.uid = user.id, !.users = (users \ {old}) \cup {user}],
              c, update_user_in_redis_commands(user.email, user))

set_role(token, user_id, role) == set_role_route(get_current_user(token), user_id, role)

----------------------------------------------------------------------------
(* Photos, comments, tags and ratings: src/repository/photos.py,           *)
(* src/repository/comments.py, src/repository/tags.py and the routes over  *)
(* them.  A photo row carries its owner, its description and the ids of    *)
(* its tags; its url, upload time and transformations are left out.  The   *)
(* repositories of the content have Sessions of their own, and the routes  *)
(* hand them the id and the role of the caller.  The store is PostgreSQL:  *)
(* a foreign key is checked by the INSERT, and an INSERT that fails has    *)
(* drawn its id from the sequence all the same.                            *)

PHOTO_NOT_FOUND == "Photo not found"
COMMENT_NOT_FOUND == "Comment not found"
TAG_NOT_FOUND == "Tag not found"
TAG_ALREADY_EXISTS == "Tag already exists"
FORBIDDEN_FOR_NOT_OWNER == "Only the owner of the picture can perform this operation."
FORBIDDEN_FOR_NOT_OWNER_AND_MODERATOR == "Only owner or admin can perform this operation."
FORBIDDEN_FOR_OWNER == "Only not-owner can perform this operation."
RATING_NOT_FOUND == "Rating not found"

\* Inputs: tag names as clients send them, descriptions, comment texts,
\* scores (RatingIn: 1 to 5).  The tags of a PhotoIn are a set of at most
\* one list: none when the field is left out (its default, None).
NewTagNames == {"cat", " Dog "}
Descriptions == {"d1", "d2"}
Contents == {"c1", "c2"}
Scores == {1, 5}
PhotoIns ==
    [description : Descriptions,
     tags : {{}, {<<>>}, {<<" Cat ">>}, {<<"cat", " Cat ">>}}]

\* tag.name.strip().lower() on the names above
strip_lower(name) ==
    IF name = " Cat " THEN "cat" ELSE IF name = " Dog " THEN "dog" ELSE name

\* A result of a handler of the content: the response and the tables as the
\* handler leaves them.
ContentKeep(status, detail, c) ==
    [status |-> status, detail |-> detail, uid |-> 0, cache |-> c,
     photos |-> photos, comments |-> comments, tags |-> tags,
     ratings |-> ratings, nextId |-> nextId]

get_photo_by_id(photo_id) == {p \in photos : p.id = photo_id}

get_comment_by_id(comment_id) == {c \in comments : c.id = comment_id}

get_tag_by_id(tag_id) == {t \in tags : t.id = tag_id}

get_tag_by_name(table, tag_name) == {t \in table : t.name = strip_lower(tag_name)}

\* PostgresPhotoRepo._set_tags: the tags table, its sequence and the list of
\* the ids of the tags, after every non-empty name was found or created and
\* committed; a name given twice is twice in the list.
RECURSIVE set_tags(_, _, _)
set_tags(photo_tags, table, next) ==
    IF photo_tags = <<>> THEN [tags |-> table, next |-> next, ids |-> <<>>]
    ELSE
      LET tag_name == strip_lower(Head(photo_tags))
          found == {t \in table : t.name = tag_name}
          tag == IF found # {} THEN CHOOSE t \in found : TRUE
                 ELSE [id |-> next, name |-> tag_name]
      IN  IF tag_name = "" THEN set_tags(Tail(photo_tags), table, next)
          ELSE LET rest == set_tags(Tail(photo_tags), table \cup {tag},
                                    IF found = {} THEN next + 1 ELSE next)
               IN  [rest EXCEPT !.ids = <<tag.id>> \o @]

\* The rows of photo_m2m_tag the flush inserts for a photo that has the
\* tags `had` and is given the list ids break unique_photo_tag: a tag the
\* photo did not have is in the list twice.
breaks_unique_photo_tag(ids, had) ==
    \E i, j \in DOMAIN ids : i # j /\ ids[i] = ids[j] /\ ids[i] \notin had

\* The tags of a photo given the list ids.
TagSet(ids) == {ids[i] : i \in DOMAIN ids}

\* create_photo with PostgresPhotoRepo.upload_photo: the upload to the
\* storage comes first and raises PhotoStorageProviderError; _set_tags
\* iterates over the tags and raises TypeError on None; the commit of the
\* photo raises IntegrityError when a tag is named twice or the caller has
\* no row in users any more, the tags of _set_tags being committed already.
create_photo_route(cur, photo_info, storage) ==
    IF cur.status # 200 THEN ContentKeep(cur.status, cur.detail, cur.cache)
    ELSE IF storage = "upload_error" THEN ContentKeep(502, <<>>, cur.cache)
    ELSE IF photo_info.tags = {} THEN ContentKeep(500, <<"TypeError">>, cur.cache)
    ELSE
      LET current_user == CHOOSE u \in cur.user : TRUE
          photo_tags == set_tags(CHOOSE names \in photo_info.tags : TRUE,
                                 tags, nextId.tags)
          new_photo == [id |-> nextId.photos, user_id |-> current_user.id,
                        description |-> photo_info.description,
                        tags |-> TagSet(photo_tags.ids)]
          after == [nextId EXCEPT !.photos = @ + 1, !.tags = photo_tags.next]
      IN  IF \/ breaks_unique_photo_tag(photo_tags.ids, {})
             \/ get_user_by_id(current_user.id) = {}
          THEN [ContentKeep(500, <<"IntegrityError">>, cur.cache) EXCEPT
                  !.tags = photo_tags.tags, !.nextId = after]
          ELSE [ContentKeep(201, <<>>, cur.cache) EXCEPT
                  !.uid = current_user.id,
                  !.photos = photos \cup {new_photo},
                  !.tags = photo_tags.tags,
                  !.nextId = after]

create_photo(token, photo_info, storage) ==
    create_photo_route(get_current_user(token), photo_info, storage)

\* Variant: a moderator may delete the photos of others as well.
delete_photo_by_moderator_too(cur, photo_id, storage) ==
    IF cur.status # 200 THEN ContentKeep(cur.status, cur.detail, cur.cache)
    ELSE
      LET current_user == CHOOSE u \in cur.user : TRUE
          found == get_photo_by_id(photo_id)
      IN  IF found = {} THEN ContentKeep(404, <<PHOTO_NOT_FOUND>>, cur.cache)
          ELSE
            LET photo == CHOOSE p \in found : TRUE IN
            IF photo.user_id = current_user.id
                 \/ current_user.role \in {ROLE_ADMIN, ROLE_MODERATOR}
            THEN [ContentKeep(IF storage = "delete_error" THEN 502 ELSE 200,
                              IF storage = "delete_error"
                              THEN <<PHOTO_STORAGE_ERROR>> ELSE <<>>,
                              cur.cache) EXCEPT
                    !.uid = current_user.id,
                    !.photos = photos \ {photo},
                    !.comments = {c \in comments : c.photo_id # photo.id},
                    !.ratings = {r \in ratings : r.photo_id # photo.id}]
            ELSE ContentKeep(403, <<FORBIDDEN_FOR_NOT_OWNER_AND_MODERATOR>>, cur.cache)

\* delete_photo with PostgresPhotoRepo.delete_photo; the comments and the
\* ratings of the photo go with it (cascade of Photo.comments, Photo.ratings).
\* The photo is deleted from the storage after the commit, and a
\* PhotoStorageProviderError of that call leaves the row deleted.
delete_photo_route(cur, photo_id, storage) ==
    IF cur.status # 200 THEN ContentKeep(cur.status, cur.detail, cur.cache)
    ELSE
      LET current_user == CHOOSE u \in cur.user : TRUE
          found == get_photo_by_id(photo_id)
      IN  IF found = {} THEN ContentKeep(404, <<PHOTO_NOT_FOUND>>, cur.cache)
          ELSE
            LET photo == CHOOSE p \in found : TRUE IN
            IF photo.user_id = current_user.id \/ current_user.role = ROLE_ADMIN
            THEN [ContentKeep(IF storage = "delete_error" THEN 502 ELSE 200,
                              IF storage = "delete_error"
                              THEN <<PHOTO_STORAGE_ERROR>> ELSE <<>>,
                              cur.cache) EXCEPT
                    !.uid = current_user.id,
                    !.photos = photos \ {photo},
                    !.comments = {c \in comments : c.photo_id # photo.id},
                    !.ratings = {r \in ratings : r.photo_id # photo.id}]
            ELSE ContentKeep(403, <<FORBIDDEN_FOR_NOT_OWNER_AND_MODERATOR>>, cur.cache)

delete_photo(token, photo_id, storage) ==
    delete_photo_route(get_current_user(token), photo_id, storage)

\* update_photo with PostgresPhotoRepo.update_photo: the tags are set when
\* the list is there and not empty; each commit of _set_tags writes the new
\* description with its tag, and the last commit raises IntegrityError when
\* a tag the photo did not have is named twice.
update_photo_route(cur, photo_id, photo_info) ==
    IF cur.status # 200 THEN ContentKeep(cur.status, cur.detail, cur.cache)
    ELSE
      LET current_user == CHOOSE u \in cur.user : TRUE
          found == get_photo_by_id(photo_id)
      IN  IF found = {} THEN ContentKeep(404, <<PHOTO_NOT_FOUND>>, cur.cache)
          ELSE
            LET photo == CHOOSE p \in found : TRUE
                names == IF photo_info.tags = {} THEN <<>>
                         ELSE CHOOSE list \in photo_info.tags : TRUE
                photo_tags == set_tags(names, tags, nextId.tags)
                described == [photo EXCEPT !.description = photo_info.description]
            IN  IF current_user.id # photo.user_id
                THEN ContentKeep(403, <<FORBIDDEN_FOR_NOT_OWNER>>, cur.cache)
                ELSE IF breaks_unique_photo_tag(photo_tags.ids, photo.tags)
                THEN [ContentKeep(500, <<"IntegrityError">>, cur.cache) EXCEPT
                        !.photos = (photos \ {photo}) \cup {described},
                        !.tags = photo_tags.tags,
                        !.nextId = [nextId EXCEPT !.tags = photo_tags.next]]
                ELSE [ContentKeep(200, <<>>, cur.cache) EXCEPT
                        !.uid = current_user.id,
                        !.photos = (photos \ {photo}) \cup
                            {[described EXCEPT
                                !.tags = IF names # <<>>
                                         THEN TagSet(photo_tags.ids) ELSE @]},
                        !.tags = photo_tags.tags,
                        !.nextId = [nextId EXCEPT !.tags = photo_tags.next]]

update_photo(token, photo_id, photo_info) == update_photo_route(get_current_user(token), photo_id, photo_info)

\* rate_photo with PostgresPhotoRepo.rate_photo; the INSERT of a rating of a
\* caller that has no row in users any more raises IntegrityError.
rate_photo_route(cur, photo_id, score) ==
    IF cur.status # 200 THEN ContentKeep(cur.status, cur.detail, cur.cache)
    ELSE
      LET current_user == CHOOSE u \in cur.user : TRUE
          found == get_photo_by_id(photo_id)
      IN  IF found = {} THEN ContentKeep(404, <<PHOTO_NOT_FOUND>>, cur.cache)
          ELSE
            LET photo == CHOOSE p \in found : TRUE
                rows == {r \in ratings :
                            r.photo_id = photo_id /\ r.user_id = current_user.id}
            IN  IF current_user.id = photo.user_id
                THEN ContentKeep(403, <<FORBIDDEN_FOR_OWNER>>, cur.cache)
                ELSE IF rows = {} /\ get_user_by_id(current_user.id) = {}
                THEN [ContentKeep(500, <<"IntegrityError">>, cur.cache) EXCEPT
                        !.nextId = [nextId EXCEPT !.ratings = @ + 1]]
                ELSE IF rows = {}
                THEN [ContentKeep(200, <<>>, cur.cache) EXCEPT
                        !.uid = current_user.id,
                        !.ratings = ratings \cup
                            {[id |-> nextId.ratings, photo_id |-> photo_id,
                              user_id |-> current_user.id, score |-> score]},
                        !.nextId = [nextId EXCEPT !.ratings = @ + 1]]
                ELSE LET rating == CHOOSE r \in rows : \A q \in rows : r.id <= q.id IN
                     [ContentKeep(200, <<>>, cur.cache) EXCEPT
                        !.uid = current_user.id,
                        !.ratings = (ratings \ {rating}) \cup
                                        {[rating EXCEPT !.score = score]}]

rate_photo(token, photo_id, score) == rate_photo_route(get_current_user(token), photo_id, score)

\* PostgresPhotoRepo.delete_rating: the rating of user_id for photo_id is
\* deleted and committed; NotFoundError when there is none.
delete_rating(photo_id, user_id) ==
    LET rows == {r \in ratings : r.photo_id = photo_id /\ r.user_id = user_id} IN
    IF rows = {} THEN ContentKeep(404, <<RATING_NOT_FOUND>>, cache)
    ELSE LET rating == CHOOSE r \in rows : \A q \in rows : r.id <= q.id IN
         [ContentKeep(200, <<>>, cache) EXCEPT
            !.uid = user_id,
            !.ratings = ratings \ {rating}]

\* create_comment with PostgresCommentRepo.create_comment; the INSERT of a
\* comment of a caller that has no row in users any more raises
\* IntegrityError.
create_comment_route(cur, photo_id, comment_content) ==
    IF cur.status # 200 THEN ContentKeep(cur.status, cur.detail, cur.cache)
    ELSE
      LET current_user == CHOOSE u \in cur.user : TRUE IN
      IF get_photo_by_id(photo_id) = {}
      THEN ContentKeep(404, <<PHOTO_NOT_FOUND>>, cur.cache)
      ELSE IF get_user_by_id(current_user.id) = {}
      THEN [ContentKeep(500, <<"IntegrityError">>, cur.cache) EXCEPT
              !.nextId = [nextId EXCEPT !.comments = @ + 1]]
      ELSE [ContentKeep(201, <<"Comment created">>, cur.cache) EXCEPT
              !.uid = current_user.id,
              !.comments = comments \cup
                  {[id |-> nextId.comments, photo_id |-> photo_id,
                    user_id |-> current_user.id, content |-> comment_content]},
              !.nextId = [nextId EXCEPT !.comments = @ + 1]]

create_comment(token, photo_id, comment_content) == create_comment_route(get_current_user(token), photo_id, comment_content)

\* update_comment with PostgresCommentRepo.update_comment.
update_comment_route(cur, comment_id, comment_content) ==
    IF cur.status # 200 THEN ContentKeep(cur.status, cur.detail, cur.cache)
    ELSE
      LET current_user == CHOOSE u \in cur.user : TRUE
          found == get_comment_by_id(comment_id)
      IN  IF found = {} THEN ContentKeep(404, <<COMMENT_NOT_FOUND>>, cur.cache)
          ELSE
            LET comment == CHOOSE c \in found : TRUE IN
            IF comment.user_id # current_user.id
            THEN ContentKeep(403, <<FORBIDDEN_FOR_NOT_OWNER>>, cur.cache)
            ELSE [ContentKeep(200, <<"Comment updated">>, cur.cache) EXCEPT
                    !.uid = current_user.id,
                    !.comments = (comments \ {comment}) \cup
                                     {[comment EXCEPT !.content = comment_content]}]

update_comment(token, comment_id, comment_content) == update_comment_route(get_current_user(token), comment_id, comment_content)

\* Variant: the route lets every caller through.
delete_comment_by_anyone(cur, comment_id) ==
    IF cur.status # 200 THEN ContentKeep(cur.status, cur.detail, cur.cache)
    ELSE
      LET current_user == CHOOSE u \in cur.user : TRUE
          found == get_comment_by_id(comment_id)
      IN  IF found = {} THEN ContentKeep(404, <<COMMENT_NOT_FOUND>>, cur.cache)
          ELSE [ContentKeep(200, <<"Comment deleted">>, cur.cache) EXCEPT
                  !.uid = current_user.id,
                  !.comments = comments \ found]

\* delete_comment with PostgresCommentRepo.delete_comment.
delete_comment_route(cur, comment_id) ==
    IF cur.status # 200 THEN ContentKeep(cur.status, cur.detail, cur.cache)
    ELSE
      LET current_user == CHOOSE u \in cur.user : TRUE
          found == get_comment_by_id(comment_id)
      IN  IF current_user.role \notin {ROLE_ADMIN, ROLE_MODERATOR}
          THEN ContentKeep(403, <<FORBIDDEN_FOR_USER>>, cur.cache)
          ELSE IF found = {} THEN ContentKeep(404, <<COMMENT_NOT_FOUND>>, cur.cache)
          ELSE [ContentKeep(200, <<"Comment deleted">>, cur.cache) EXCEPT
                  !.uid = current_user.id,
                  !.comments = comments \ found]

delete_comment(token, comment_id) == delete_comment_route(get_current_user(token), comment_id)

\* create_tag with PostgresTagRepo.get_tag_by_name and create_tag.
create_tag_route(cur, tag_name) ==
    IF cur.status # 200 THEN ContentKeep(cur.status, cur.detail, cur.cache)
    ELSE
      LET current_user == CHOOSE u \in cur.user : TRUE IN
      IF get_tag_by_name(tags, tag_name) # {}
      THEN ContentKeep(409, <<TAG_ALREADY_EXISTS>>, cur.cache)
      ELSE [ContentKeep(201, <<"Tag created">>, cur.cache) EXCEPT
              !.uid = current_user.id,
              !.tags = tags \cup {[id |-> nextId.tags, name |-> strip_lower(tag_name)]},
              !.nextId = [nextId EXCEPT !.tags = @ + 1]]

create_tag(token, tag_name) == create_tag_route(get_current_user(token), tag_name)

\* update_tag with PostgresTagRepo.update_tag: the name is looked up
\* stripped and in lower case and stored as it was sent; the commit raises
\* IntegrityError when another tag holds the name as sent (tags.name is
\* unique), and the tags stay as they were.
update_tag_route(cur, tag_id, tag_name) ==
    IF cur.status # 200 THEN ContentKeep(cur.status, cur.detail, cur.cache)
    ELSE
      LET current_user == CHOOSE u \in cur.user : TRUE
          found == get_tag_by_id(tag_id)
      IN  IF current_user.role \notin {ROLE_ADMIN, ROLE_MODERATOR}
          THEN ContentKeep(403, <<FORBIDDEN_FOR_USER>>, cur.cache)
          ELSE IF found = {} THEN ContentKeep(404, <<TAG_NOT_FOUND>>, cur.cache)
          ELSE IF get_tag_by_name(tags, tag_name) # {}
          THEN ContentKeep(409, <<TAG_ALREADY_EXISTS>>, cur.cache)
          ELSE IF \E t \in tags \ found : t.name = tag_name
          THEN ContentKeep(500, <<"IntegrityError">>, cur.cache)
          ELSE [ContentKeep(200, <<"Tag updated">>, cur.cache) EXCEPT
                  !.uid = current_user.id,
                  !.tags = (tags \ found) \cup
                               {[t EXCEPT !.name = tag_name] : t \in found}]

\* delete_tag with PostgresTagRepo.delete_tag; the rows of photo_m2m_tag
\* that name the tag go with it.
delete_tag_route(cur, tag_id) ==
    IF cur.status # 200 THEN ContentKeep(cur.status, cur.detail, cur.cache)
    ELSE
      LET current_user == CHOOSE u \in cur.user : TRUE
          found == get_tag_by_id(tag_id)
      IN  IF current_user.role # ROLE_ADMIN
          THEN ContentKeep(403, <<FORBIDDEN_FOR_USER_AND_MODERATOR>>, cur.cache)
          ELSE IF found = {} THEN ContentKeep(404, <<TAG_NOT_FOUND>>, cur.cache)
          ELSE [ContentKeep(200, <<"Tag deleted">>, cur.cache) EXCEPT
                  !.uid = current_user.id,
                  !.tags = tags \ found,
                  !.photos = {[p EXCEPT !.tags = @ \ {tag_id}] : p \in photos}]

delete_tag(token, tag_id) == delete_tag_route(get_current_user(token), tag_id)

----------------------------------------------------------------------------
(* The state machine.  A request that awaits Redis gives way to the other  *)
(* coroutines of the worker at each await (r.get, r.set, r.expire,         *)
(* r.delete); the calls of the store are synchronous.  Such a request is   *)
(* the steps between its awaits: the decode of the token by the dependency *)
(* get_current_user (lines 162-171), its r.get (172), on a miss the read   *)
(* of the store (173-178), r.set and r.expire of update_user_in_redis      *)
(* (179), then the checks of the blacklist and of is_active (182-186),     *)
(* then, after the call of a dependency in the thread pool where the route *)
(* has one left, the body of the route up to its commit, then each command *)
(* the route sends to Redis after the commit, the response following the   *)
(* last one.  The calls of the photo storage do not give way.              *)
(* refresh_token awaits nothing and commits twice; it is the statements it *)
(* sends to the store.  The dependencies of signup and login are solved    *)
(* before their first line, each commits once and is one step.  Requests   *)
(* arrive, the clock moves and manage.py runs while others are in flight.  *)

Procs == {1, 2}

\* The parameters of a request; a route reads those it declares.
NoArg ==
    [user_id |-> 0, role |-> ROLE_STANDARD, is_active |-> TRUE,
     body |-> [username |-> "", email |-> "", password |-> ""], url |-> "",
     skip |-> 0, limit |-> 0, photo_id |-> 0, comment_id |-> 0, tag_id |-> 0,
     photo_info |-> [description |-> "", tags |-> {}], score |-> 0,
     content |-> "", tag_name |-> ""]

\* The locals of a request: its token, the user get_current_user holds and
\* the identity map of the Session of the request, the rows a refresh read,
\* the commands left to send to Redis and the response that follows them;
\* late notes a token that was presented after a logout with it succeeded.
NoLocals ==
    [token |-> WrongToken, user |-> {}, session |-> {}, rows |-> {}, op |-> "",
     arg |-> NoArg, pending |-> <<>>, status |-> 0, detail |-> <<>>, uid |-> 0,
     late |-> FALSE]

\* The tokens a client can present: those it was given, or a wrong one.
Tokens == {WrongToken} \cup {p.access : p \in issued} \cup {p.refresh : p \in issued}

UserIds == 1..(MaxUsers + 1)

\* The access tokens handed to clients.
AccessTokens == {p.access : p \in issued}

\* The store after `python manage.py create_admin`, nobody logged in.
Init ==
    /\ users = {create_admin("root", "a@x", "Passw0rd!", 1)}
    /\ refreshTokens = {}
    /\ logoutTokens = {}
    /\ cache = {}
    /\ now = 0
    /\ nextUserId = 2
    /\ nextSession = 1
    /\ issued = {}
    /\ loggedOut = {}
    /\ resp = [op |-> "init", status |-> 0, detail |-> <<>>, uid |-> 0, pairs |-> {}]
    /\ steps = 0
    /\ pc = [p \in Procs |-> "idle"]
    /\ loc = [p \in Procs |-> NoLocals]
    /\ committed = {}
    /\ photos = {}
    /\ comments = {}
    /\ tags = {}
    /\ ratings = {}
    /\ nextId = [photos |-> 1, comments |-> 1, tags |-> 1, ratings |-> 1]

\* No request is in flight.
Idle == \A p \in Procs : pc[p] = "idle"

\* No response was sent by the step: a request is in flight, or manage.py
\* ran.
NoResponse(op) == [op |-> op, status |-> 0, detail |-> <<>>, uid |-> 0, pairs |-> {}]

\* A handler that commits once returns: its tables are committed and its
\* response recorded.
Respond(op, r) ==
    /\ users' = r.users
    /\ refreshTokens' = r.refreshTokens
    /\ logoutTokens' = r.logoutTokens
    /\ cache' = r.cache
    /\ resp' = [op |-> op, status |-> r.status, detail |-> r.detail,
                uid |-> r.uid, pairs |-> r.pairs]
    /\ issued' = issued \cup r.pairs
    /\ nextSession' = IF r.pairs # {} THEN nextSession + 1 ELSE nextSession

\* The commit of a changed role or is_active of user_id is noted with its time.
Commit(r, user_id) ==
    IF r.status = 200 /\ r.users # users
    THEN {w \in committed : w.uid # user_id} \cup {[uid |-> user_id, at |-> now]}
    ELSE committed

Signup(body) ==
    LET r == signup(body) IN
    /\ r.status = 201 => nextUserId <= MaxUsers
    /\ Respond("signup", r)
    /\ nextUserId' = IF r.status = 201 THEN nextUserId + 1 ELSE nextUserId
    /\ steps' = steps + 1
    /\ UNCHANGED <<now, loggedOut, pc, loc, committed, content>>

Login(username, password) ==
    /\ Respond("login", login(username, password))
    /\ UNCHANGED <<now, nextUserId, loggedOut, pc, loc, committed, content>>

\* manage.py create_admin: the INSERT of __add_admin_to_db draws the id and
\* fails on a username or an email that is taken; the run ends there.
CreateAdmin(username, email, password) ==
    LET table == users \cup {create_admin(username, email, password, nextUserId)} IN
    /\ nextUserId <= MaxUsers
    /\ users' = IF UsersUnique(table) THEN table ELSE users
    /\ nextUserId' = nextUserId + 1
    /\ resp' = NoResponse("create_admin")
    /\ UNCHANGED <<refreshTokens, logoutTokens, cache, now, nextSession, issued,
                   loggedOut, pc, loc, committed, content>>

\* manage.py clean_access_tokens
CleanAccessTokens ==
    /\ logoutTokens' = delete_exp_tokens(logoutTokens)
    /\ resp' = NoResponse("clean_access_tokens")
    /\ UNCHANGED <<users, refreshTokens, cache, now, nextUserId, nextSession,
                   issued, loggedOut, pc, loc, committed, content>>

\* manage.py clean_refresh_tokens
CleanRefreshTokens ==
    /\ refreshTokens' = delete_exp_tokens(refreshTokens)
    /\ resp' = NoResponse("clean_refresh_tokens")
    /\ UNCHANGED <<users, logoutTokens, cache, now, nextUserId, nextSession,
                   issued, loggedOut, pc, loc, committed, content>>

\* Time passes; Redis drops the keys whose TTL has run out.
Tick(d) ==
    /\ now' = now + d
    /\ cache' = redis_at(cache, now + d)
    /\ UNCHANGED <<users, refreshTokens, logoutTokens, nextUserId, nextSession,
                   issued, loggedOut, resp, steps, pc, loc, committed, content>>

----------------------------------------------------------------------------
(* The requests of the routes that depend on get_current_user. *)

\* What the route of a request meets outside the store and Redis: what the
\* photo storage does with the calls of the routes that have any, and the
\* order in which the store returns the rows get_users selects.
Env(op) ==
    [storage : IF op = "update_user_avatar" THEN StorageOutcomes
               ELSE IF op = "create_photo" THEN {"ok", "upload_error"}
               ELSE IF op = "delete_photo" THEN {"ok", "delete_error"}
               ELSE {"ok"},
     order : IF op = "get_users" THEN Orders(users) ELSE {<<>>}]

\* The route of a request, given what its dependency get_current_user
\* returned.
route(op, token, cur, arg, env) ==
    CASE op = "logout" -> logout_route(cur, token)
      [] op = "update_user" -> update_user_route(cur, arg.body)
      [] op = "update_user_avatar" ->
             update_user_avatar_route(cur, arg.url, env.storage)
      [] op = "delete_user" -> delete_user_route(cur, arg.user_id)
      [] op = "set_active_status" ->
             set_active_status_route(cur, arg.user_id, arg.is_active)
      [] op = "set_role" -> set_role_route(cur, arg.user_id, arg.role)
      [] op = "get_users" -> get_users_route(cur, arg.skip, arg.limit, env.order)
      [] op = "get_user" -> get_user_route(cur, arg.user_id)
      [] op = "create_photo" -> create_photo_route(cur, arg.photo_info, env.storage)
      [] op = "delete_photo" -> delete_photo_route(cur, arg.photo_id, env.storage)
      [] op = "update_photo" -> update_photo_route(cur, arg.photo_id, arg.photo_info)
      [] op = "rate_photo" -> rate_photo_route(cur, arg.photo_id, arg.score)
      [] op = "create_comment" ->
             create_comment_route(cur, arg.photo_id, arg.content)
      [] op = "update_comment" ->
             update_comment_route(cur, arg.comment_id, arg.content)
      [] op = "delete_comment" -> delete_comment_route(cur, arg.comment_id)
      [] op = "create_tag" -> create_tag_route(cur, arg.tag_name)
      [] op = "update_tag" -> update_tag_route(cur, arg.tag_id, arg.tag_name)
      [] op = "delete_tag" -> delete_tag_route(cur, arg.tag_id)
      [] OTHER ->
             [KeepWith(cur.status, cur.detail, cur.cache) EXCEPT
                 !.uid = IF cur.user = {} THEN 0 ELSE (CHOOSE u \in cur.user : TRUE).id]

\* The result of a route with the tables it does not name, as they are, and
\* with the caller it was made for.
Whole(r, cur) ==
    r @@ [uid |-> IF cur.user = {} THEN 0 ELSE (CHOOSE u \in cur.user : TRUE).id,
          users |-> users, refreshTokens |-> refreshTokens,
          logoutTokens |-> logoutTokens, photos |-> photos, comments |-> comments,
          tags |-> tags, ratings |-> ratings, nextId |-> nextId, redis |-> <<>>]

\* The request of p ends with this response.
RequestEnd(p, op, token, status, detail, uid) ==
    /\ resp' = [op |-> op, status |-> status, detail |-> detail,
                uid |-> uid, pairs |-> {}]
    /\ loggedOut' = IF op = "logout" /\ status = 200
                    THEN loggedOut \cup {token} ELSE loggedOut
    /\ pc' = [pc EXCEPT ![p] = "idle"]
    /\ loc' = [loc EXCEPT ![p] = NoLocals]

\* The request of p goes on to the position at with these locals.
RequestGoes(p, at, locals) ==
    /\ pc' = [pc EXCEPT ![p] = at]
    /\ loc' = [loc EXCEPT ![p] = locals]
    /\ resp' = NoResponse("")
    /\ UNCHANGED loggedOut

\* get_current_user, lines 162-171: the decode of the token, at the time
\* the request arrives.  The request is the coroutine p, the first one that
\* is free.
RequestStart(p, op, token, arg) ==
    /\ pc[p] = "idle"
    /\ \A q \in Procs : q < p => pc[q] # "idle"
    /\ steps' = steps + 1
    /\ IF ~jwt_decode_ok(token) \/ token.scope # ACCESS_TOKEN
       THEN RequestEnd(p, op, token, 401, <<COULD_NOT_VALIDATE_CREDENTIALS>>, 0)
       ELSE RequestGoes(p, "get",
                [NoLocals EXCEPT !.token = token, !.op = op, !.arg = arg,
                                 !.late = token \in loggedOut])
    /\ UNCHANGED <<users, refreshTokens, logoutTokens, cache, now, nextUserId,
                   nextSession, issued, committed, content>>

\* get_current_user, line 172: r.get of get_user_from_redis, at the time
\* Redis serves it; the user of a hit is unpickled and belongs to no Session.
ResolveGet(p) ==
    /\ pc[p] = "get"
    /\ LET cached == redis_get(cache, loc[p].token.sub) IN
       RequestGoes(p, IF cached = {} THEN "lookup" ELSE "route",
                   [loc[p] EXCEPT !.user = {e.user : e \in cached}])
    /\ UNCHANGED <<users, refreshTokens, logoutTokens, cache, now, nextUserId,
                   nextSession, issued, steps, committed, content>>

\* get_current_user, lines 173-178: on a miss the user is read from the
\* store and stays in the Session of the request.
ResolveLookup(p) ==
    /\ pc[p] = "lookup"
    /\ LET email == loc[p].token.sub
           stored == get_user_by_email(email)
       IN  IF stored = {}
           THEN RequestEnd(p, loc[p].op, loc[p].token, 401,
                           <<COULD_NOT_VALIDATE_CREDENTIALS, ", email: ", email>>, 0)
           ELSE RequestGoes(p, "cache_write",
                    [loc[p] EXCEPT
                        !.user = stored, !.session = stored,
                        !.pending = update_user_in_redis_commands(
                                        email, CHOOSE u \in stored : TRUE)])
    /\ UNCHANGED <<users, refreshTokens, logoutTokens, cache, now, nextUserId,
                   nextSession, issued, steps, committed, content>>

\* get_current_user, line 179: update_user_in_redis(email, user), a command
\* at a time.
ResolveCacheWrite(p) ==
    /\ pc[p] = "cache_write"
    /\ cache' = redis_command(cache, Head(loc[p].pending))
    /\ RequestGoes(p, IF Len(loc[p].pending) = 1 THEN "route" ELSE "cache_write",
                   [loc[p] EXCEPT !.pending = Tail(@)])
    /\ UNCHANGED <<users, refreshTokens, logoutTokens, now, nextUserId, nextSession,
                   issued, steps, committed, content>>

\* The routes that declare, after current_user, a dependency that is a plain
\* function and is not yet solved for the request (get_password_handler,
\* get_photo_storage_provider, the repositories of photos, comments and
\* tags): FastAPI awaits its call in the thread pool, and the coroutine gives
\* way between the return of get_current_user and the body of the route.
\* get_user_repository was solved for get_current_user before its first line.
SyncDependencies ==
    {"update_user", "update_user_avatar", "create_photo", "delete_photo",
     "update_photo", "rate_photo", "create_comment", "update_comment",
     "delete_comment", "create_tag", "update_tag", "delete_tag"}

\* The body of the route of p up to its commit, for what get_current_user
\* returned; a route that sends nothing to Redis answers here.
RouteBody(p, cur) ==
    \E env \in Env(loc[p].op) :
    LET op == loc[p].op
        token == loc[p].token
        r == Whole(route(op, token, cur, loc[p].arg, env), cur)
    IN  /\ users' = r.users
        /\ refreshTokens' = r.refreshTokens
        /\ logoutTokens' = r.logoutTokens
        /\ photos' = r.photos
        /\ comments' = r.comments
        /\ tags' = r.tags
        /\ ratings' = r.ratings
        /\ nextId' = r.nextId
        /\ committed' = IF op \in {"set_role", "set_active_status"}
                        THEN Commit(r, loc[p].arg.user_id) ELSE committed
        /\ IF r.redis = <<>>
           THEN RequestEnd(p, op, token, r.status, r.detail, r.uid)
           ELSE RequestGoes(p, "redis",
                    [loc[p] EXCEPT !.pending = r.redis, !.status = r.status,
                                   !.detail = r.detail, !.uid = r.uid])
        /\ UNCHANGED <<cache, now, nextUserId, nextSession, issued, steps>>

\* get_current_user, lines 182-186: the blacklist and is_active of the user
\* that was found.  The body of the route follows in the same step, unless
\* the request has a dependency left to await.
RequestRoute(p) ==
    /\ pc[p] = "route"
    /\ LET cur == check_current_user(loc[p].token, CHOOSE u \in loc[p].user : TRUE,
                                     loc[p].session, cache)
       IN  IF cur.status = 200 /\ loc[p].op \in SyncDependencies
           THEN /\ RequestGoes(p, "body", loc[p])
                /\ UNCHANGED <<users, refreshTokens, logoutTokens, cache, now,
                               nextUserId, nextSession, issued, steps, committed,
                               content>>
           ELSE RouteBody(p, cur)

\* The body of a route that awaited a dependency after get_current_user
\* had returned the principal.
RequestBody(p) ==
    /\ pc[p] = "body"
    /\ RouteBody(p, [status |-> 200, detail |-> <<>>, user |-> loc[p].user,
                     session |-> loc[p].session, cache |-> cache])

\* The commands the route awaits after its commit (update_user_in_redis,
\* delete_user_from_redis), a command at a time; the response follows the
\* last one.
RouteRedis(p) ==
    /\ pc[p] = "redis"
    /\ cache' = redis_command(cache, Head(loc[p].pending))
    /\ IF Len(loc[p].pending) = 1
       THEN RequestEnd(p, loc[p].op, loc[p].token,
                       loc[p].status, loc[p].detail, loc[p].uid)
       ELSE RequestGoes(p, "redis", [loc[p] EXCEPT !.pending = Tail(@)])
    /\ UNCHANGED <<users, refreshTokens, logoutTokens, now, nextUserId, nextSession,
                   issued, steps, committed, content>>

\* The steps of the requests in flight.
RequestStep ==
    \/ \E p \in Procs : ResolveGet(p)
    \/ \E p \in Procs : ResolveLookup(p)
    \/ \E p \in Procs : ResolveCacheWrite(p)
    \/ \E p \in Procs : RequestRoute(p)
    \/ \E p \in Procs : RequestBody(p)
    \/ \E p \in Procs : RouteRedis(p)

\* The steps of the requests in flight whose dependencies are all coroutines.
AsyncRequestStep ==
    \/ \E p \in Procs : ResolveGet(p)
    \/ \E p \in Procs : ResolveLookup(p)
    \/ \E p \in Procs : ResolveCacheWrite(p)
    \/ \E p \in Procs : RequestRoute(p)
    \/ \E p \in Procs : RouteRedis(p)

\* The arrival of a request of each route.
GetCurrentUser(p, token) == RequestStart(p, "get_current_user", token, NoArg)

Logout(p, token) == RequestStart(p, "logout", token, NoArg)

UpdateUser(p, token, body) ==
    RequestStart(p, "update_user", token, [NoArg EXCEPT !.body = body])

UpdateUserAvatar(p, token, new_avatar_url) ==
    RequestStart(p, "update_user_avatar", token, [NoArg EXCEPT !.url = new_avatar_url])

DeleteUser(p, token, user_id) ==
    RequestStart(p, "delete_user", token, [NoArg EXCEPT !.user_id = user_id])

SetActiveStatus(p, token, user_id, is_active) ==
    RequestStart(p, "set_active_status", token,
                 [NoArg EXCEPT !.user_id = user_id, !.is_active = is_active])

SetRole(p, token, user_id, role) ==
    RequestStart(p, "set_role", token,
                 [NoArg EXCEPT !.user_id = user_id, !.role = role])

----------------------------------------------------------------------------
(* refresh_token: each statement delete_refresh_token and __set_tokens     *)
(* send to the store is one step: the SELECT of the row, the DELETE of the *)
(* row that was read with its commit, the INSERT of the new row with its   *)
(* commit.                                                                 *)

RaceRespond(op, r) ==
    /\ refreshTokens' = r.refreshTokens
    /\ resp' = [op |-> op, status |-> r.status, detail |-> r.detail,
                uid |-> r.uid, pairs |-> r.pairs]
    /\ issued' = issued \cup r.pairs
    /\ nextSession' = IF r.pairs # {} THEN nextSession + 1 ELSE nextSession
    /\ UNCHANGED <<users, logoutTokens, cache, now, nextUserId, loggedOut,
                   committed, content>>

\* refresh_token up to the lookup of the user: lines 203-207.
RefreshStart(p, token) ==
    /\ pc[p] = "idle"
    /\ LET dec == decode_refresh_token(token)
           found == get_user_by_email(dec.email)
       IN  IF dec.status # 200
           THEN RaceRespond("refresh_token", Keep(dec.status, dec.detail))
                /\ UNCHANGED <<pc, loc>>
           ELSE IF found = {}
           THEN RaceRespond("refresh_token", Keep(404, <<USER_NOT_FOUND>>))
                /\ UNCHANGED <<pc, loc>>
           ELSE /\ pc' = [pc EXCEPT ![p] = "select"]
                /\ loc' = [loc EXCEPT ![p] =
                              [NoLocals EXCEPT !.token = token, !.user = found,
                                               !.session = found,
                                               !.op = "refresh_token"]]
                /\ resp' = NoResponse("")
                /\ UNCHANGED <<users, refreshTokens, logoutTokens, cache, now,
                               nextUserId, nextSession, issued, loggedOut,
                               committed, content>>

\* delete_refresh_token, the query: lines 227-237.
RefreshSelect(p) ==
    /\ pc[p] = "select"
    /\ LET user == CHOOSE u \in loc[p].user : TRUE
           rows == find_refresh_token(refreshTokens, loc[p].token, user.id)
       IN  IF rows = {}
           THEN /\ RaceRespond("refresh_token", Keep(404, <<TOKEN_NOT_FOUND>>))
                /\ pc' = [pc EXCEPT ![p] = "idle"]
                /\ loc' = [loc EXCEPT ![p] = NoLocals]
           ELSE /\ pc' = [pc EXCEPT ![p] = "delete"]
                /\ loc' = [loc EXCEPT ![p].rows = rows]
                /\ resp' = NoResponse("")
                /\ UNCHANGED <<users, refreshTokens, logoutTokens, cache, now,
                               nextUserId, nextSession, issued, loggedOut,
                               committed, content>>

\* delete_refresh_token, db.delete(old_token) and commit: lines 238-239.
\* The DELETE names the row read before; when that row is gone it matches
\* nothing and the commit still succeeds.
RefreshDelete(p) ==
    /\ pc[p] = "delete"
    /\ refreshTokens' = refreshTokens \ loc[p].rows
    /\ pc' = [pc EXCEPT ![p] = "set_tokens"]
    /\ resp' = NoResponse("")
    /\ UNCHANGED <<users, logoutTokens, cache, now, nextUserId, nextSession,
                   issued, loggedOut, loc, committed, content>>

\* __set_tokens and the response: line 209.  The commit of
\* delete_refresh_token expired the user, and __set_tokens reads its email
\* and id again from the store; the read raises when the row is gone.
RefreshSetTokens(p) ==
    /\ pc[p] = "set_tokens"
    /\ LET found == get_user_by_id((CHOOSE u \in loc[p].user : TRUE).id) IN
       IF found = {}
       THEN RaceRespond("refresh_token", Keep(500, <<"ObjectDeletedError">>))
       ELSE LET r == set_tokens(CHOOSE u \in found : TRUE, refreshTokens, cache) IN
            RaceRespond("refresh_token",
                [r EXCEPT !.pairs =
                    {[pr EXCEPT !.parent = {loc[p].token}] : pr \in r.pairs}])
    /\ pc' = [pc EXCEPT ![p] = "idle"]
    /\ loc' = [loc EXCEPT ![p] = NoLocals]

\* The request ends between the commit of the DELETE and __set_tokens (the
\* worker is stopped, or the INSERT raises): nothing undoes the DELETE.
RefreshAbort(p) ==
    /\ pc[p] = "set_tokens"
    /\ RaceRespond("refresh_token", Keep(500, <<"Internal Server Error">>))
    /\ pc' = [pc EXCEPT ![p] = "idle"]
    /\ loc' = [loc EXCEPT ![p] = NoLocals]

\* The arrival of a refresh request at the worker, as its coroutine p.
RefreshToken(p, token) ==
    /\ \A q \in Procs : q < p => pc[q] # "idle"
    /\ RefreshStart(p, token)
    /\ steps' = steps + 1

\* The steps of the refresh requests in flight.
RefreshStep ==
    /\ \/ \E p \in Procs : RefreshSelect(p)
       \/ \E p \in Procs : RefreshDelete(p)
       \/ \E p \in Procs : RefreshSetTokens(p)
    /\ UNCHANGED steps

----------------------------------------------------------------------------
(* The worker serves the requests of the endpoints of routes/auth.py and   *)
(* of the writing endpoints of routes/users.py side by side, and manage.py *)
(* runs beside it.                                                         *)

Next ==
    \/ steps < MaxSteps /\
         \/ \E body \in UserIns : Signup(body)
         \/ \E e \in Emails, pw \in Passwords :
                /\ login(e, pw).status = 200 => nextSession <= MaxSessions
                /\ Login(e, pw)
                /\ steps' = steps + 1
         \/ \E p \in Procs, t \in Tokens : Logout(p, t)
         \/ \E p \in Procs, t \in Tokens :
                /\ refresh_token(t).status = 200 => nextSession <= MaxSessions
                /\ RefreshToken(p, t)
         \/ \E p \in Procs, t \in Tokens : GetCurrentUser(p, t)
         \/ \E p \in Procs, t \in AccessTokens, body \in UserIns : UpdateUser(p, t, body)
         \/ \E p \in Procs, t \in AccessTokens, id \in UserIds : DeleteUser(p, t, id)
         \/ \E p \in Procs, t \in AccessTokens, id \in UserIds, a \in BOOLEAN :
                SetActiveStatus(p, t, id, a)
         \/ \E p \in Procs, t \in AccessTokens, id \in UserIds, r \in UserRoleInEnum :
                SetRole(p, t, id, r)
         \/ \E u \in Usernames, e \in Emails :
                CreateAdmin(u, e, "Passw0rd!") /\ steps' = steps + 1
         \/ CleanAccessTokens /\ steps' = steps + 1
         \/ CleanRefreshTokens /\ steps' = steps + 1
    \/ RequestStep
    \/ RefreshStep
    \/ \E d \in TimeSteps : now + d \in ClockValues /\ Tick(d)

Spec == Init /\ [][Next]_vars

----------------------------------------------------------------------------
(* The endpoints of routes/auth.py over the accounts manage.py created,    *)
(* with the sweeps of manage.py, for one request more.                     *)

NextSessions ==
    \/ steps < SessionSteps /\
         \/ \E e \in Emails, pw \in Passwords :
                /\ login(e, pw).status = 200 => nextSession <= MaxSessions
                /\ Login(e, pw)
                /\ steps' = steps + 1
         \/ \E p \in Procs, t \in Tokens : Logout(p, t)
         \/ \E p \in Procs, t \in Tokens :
                /\ refresh_token(t).status = 200 => nextSession <= MaxSessions
                /\ RefreshToken(p, t)
         \/ \E p \in Procs, t \in Tokens : GetCurrentUser(p, t)
         \/ CleanAccessTokens /\ steps' = steps + 1
         \/ CleanRefreshTokens /\ steps' = steps + 1
         \/ \E p \in Procs, t \in AccessTokens :
                UpdateUser(p, t, [username |-> "root", email |-> "b@x",
                                  password |-> "Passw0rd!"])
    \/ RequestStep
    \/ RefreshStep
    \/ \E d \in TimeSteps : now + d \in ClockValues /\ Tick(d)

SpecSessions == Init /\ [][NextSessions]_vars

----------------------------------------------------------------------------
(* The content endpoints and the read endpoints of routes/users.py.  They  *)
(* start where the store has an admin and a second account, standard or    *)
(* moderator, and each of the two holds a session: after `manage.py        *)
(* create_admin`, a login of root, the signup of bob, for a moderator the  *)
(* set_role that makes bob one, and a login of bob, all at the same time   *)
(* of the clock.                                                           *)

\* The pair __set_tokens hands to user under session_id.
PairOf(user, session_id) ==
    [access |-> create_access_token(user.email, session_id),
     refresh |-> create_refresh_token(user.email, session_id),
     owner |-> user.id, parent |-> {}]

InitContent ==
    \E role \in UserRoleInEnum :
    LET root == create_admin("root", "a@x", "Passw0rd!", 1)
        signed_up == create_user([username |-> "bob", email |-> "b@x",
                                  password |-> get_password_hash("Passw0rd!")], 2)
        bob == [signed_up EXCEPT !.role = role]
    IN  /\ now = 0
        /\ users = {root, bob}
        /\ issued = {PairOf(root, 1), PairOf(bob, 2)}
        /\ refreshTokens =
               add_refresh_token(
                   add_refresh_token({}, root.id, PairOf(root, 1).refresh,
                                     PairOf(root, 1).refresh.exp, 1),
                   bob.id, PairOf(bob, 2).refresh, PairOf(bob, 2).refresh.exp, 2)
        /\ logoutTokens = {}
        /\ cache = IF role = ROLE_STANDARD THEN {}
                   ELSE update_user_in_redis(
                            update_user_in_redis({}, root.email, root), bob.email, bob)
        /\ nextUserId = 3
        /\ nextSession = 3
        /\ loggedOut = {}
        /\ resp = [op |-> "login", status |-> 200, detail |-> <<>>, uid |-> bob.id,
                   pairs |-> {PairOf(bob, 2)}]
        /\ steps = 0
        /\ pc = [p \in Procs |-> "idle"]
        /\ loc = [p \in Procs |-> NoLocals]
        /\ committed = IF role = ROLE_STANDARD THEN {} ELSE {[uid |-> bob.id, at |-> 0]}
        /\ photos = {}
        /\ comments = {}
        /\ tags = {}
        /\ ratings = {}
        /\ nextId = [photos |-> 1, comments |-> 1, tags |-> 1, ratings |-> 1]

\* The read endpoints, with the operations that change what a view shows.
Skips == {0, 1}
Limits == {1, 10}

GetUsers(p, token, skip, limit) ==
    RequestStart(p, "get_users", token, [NoArg EXCEPT !.skip = skip, !.limit = limit])

GetUser(p, token, user_id) ==
    RequestStart(p, "get_user", token, [NoArg EXCEPT !.user_id = user_id])

NextViews ==
    \/ steps < ViewSteps /\
         \/ \E p \in Procs, t \in AccessTokens, id \in UserIds, r \in UserRoleInEnum :
                SetRole(p, t, id, r)
         \/ \E p \in Procs, t \in AccessTokens, id \in UserIds, a \in BOOLEAN :
                SetActiveStatus(p, t, id, a)
         \/ \E p \in Procs, t \in AccessTokens, skip \in Skips, limit \in Limits :
                GetUsers(p, t, skip, limit)
         \/ \E p \in Procs, t \in AccessTokens, id \in UserIds : GetUser(p, t, id)
         \/ \E p \in Procs, t \in AccessTokens, url \in AvatarUrls :
                UpdateUserAvatar(p, t, url)
         \/ \E p \in Procs, t \in AccessTokens, body \in UserIns : UpdateUser(p, t, body)
    \/ RequestStep

SpecViews == InitContent /\ [][NextViews]_vars

PhotoIds == 1..MaxPhotos
CommentIds == 1..MaxComments

CreatePhoto(p, token, photo_info) ==
    RequestStart(p, "create_photo", token, [NoArg EXCEPT !.photo_info = photo_info])

DeletePhoto(p, token, photo_id) ==
    RequestStart(p, "delete_photo", token, [NoArg EXCEPT !.photo_id = photo_id])

\* A call of PostgresPhotoRepo.delete_rating by a holder of the repository:
\* routes/photos.py has no route for it, so it comes with no token and in
\* one piece.
DeleteRating(photo_id, user_id) ==
    LET r == delete_rating(photo_id, user_id) IN
    /\ ratings' = r.ratings
    /\ resp' = [op |-> "delete_rating", status |-> r.status, detail |-> r.detail,
                uid |-> r.uid, pairs |-> {}]
    /\ steps' = steps + 1
    /\ UNCHANGED <<users, refreshTokens, logoutTokens, cache, now, nextUserId,
                   nextSession, issued, loggedOut, pc, loc, committed,
                   photos, comments, tags, nextId>>

UpdatePhoto(p, token, photo_id, photo_info) ==
    RequestStart(p, "update_photo", token,
                 [NoArg EXCEPT !.photo_id = photo_id, !.photo_info = photo_info])

RatePhoto(p, token, photo_id, score) ==
    RequestStart(p, "rate_photo", token,
                 [NoArg EXCEPT !.photo_id = photo_id, !.score = score])

CreateComment(p, token, photo_id, comment_content) ==
    RequestStart(p, "create_comment", token,
                 [NoArg EXCEPT !.photo_id = photo_id, !.content = comment_content])

UpdateComment(p, token, comment_id, comment_content) ==
    RequestStart(p, "update_comment", token,
                 [NoArg EXCEPT !.comment_id = comment_id, !.content = comment_content])

DeleteComment(p, token, comment_id) ==
    RequestStart(p, "delete_comment", token, [NoArg EXCEPT !.comment_id = comment_id])

CreateTag(p, token, tag_name) ==
    RequestStart(p, "create_tag", token, [NoArg EXCEPT !.tag_name = tag_name])

UpdateTag(p, token, tag_id, tag_name) ==
    RequestStart(p, "update_tag", token,
                 [NoArg EXCEPT !.tag_id = tag_id, !.tag_name = tag_name])

DeleteTag(p, token, tag_id) ==
    RequestStart(p, "delete_tag", token, [NoArg EXCEPT !.tag_id = tag_id])

\* The requests of the content endpoints: a photo is created with the
\* first description and updated with the second, a comment likewise.
NextContent ==
    \/ steps < ContentSteps /\
         \/ \E p \in Procs, t \in AccessTokens, info \in PhotoIns :
                /\ nextId.photos <= MaxPhotos
                /\ info.description = "d1"
                /\ CreatePhoto(p, t, info)
         \/ \E p \in Procs, t \in AccessTokens, id \in PhotoIds : DeletePhoto(p, t, id)
         \/ \E p \in Procs, t \in AccessTokens, id \in PhotoIds, info \in PhotoIns :
                info.description = "d2" /\ UpdatePhoto(p, t, id, info)
         \/ \E p \in Procs, t \in AccessTokens, id \in PhotoIds, score \in Scores :
                RatePhoto(p, t, id, score)
         \/ \E id \in PhotoIds, user_id \in UserIds : DeleteRating(id, user_id)
         \/ \E p \in Procs, t \in AccessTokens, id \in PhotoIds :
                nextId.comments <= MaxComments /\ CreateComment(p, t, id, "c1")
         \/ \E p \in Procs, t \in AccessTokens, id \in CommentIds :
                UpdateComment(p, t, id, "c2")
         \/ \E p \in Procs, t \in AccessTokens, id \in CommentIds :
                DeleteComment(p, t, id)
         \/ \E p \in Procs, t \in AccessTokens : CreateTag(p, t, " Cat ")
         \/ \E p \in Procs, t \in AccessTokens, n \in NewTagNames :
                UpdateTag(p, t, 1, n)
         \/ \E p \in Procs, t \in AccessTokens : DeleteTag(p, t, 1)
         \/ \E p \in Procs, t \in AccessTokens : DeleteUser(p, t, 2)
         \/ \E p \in Procs, t \in AccessTokens :
                UpdateUser(p, t, [username |-> "bob", email |-> "b@x",
                                  password |-> "Passw0rd!"])
    \/ RequestStep

SpecContent == InitContent /\ [][NextContent]_vars

----------------------------------------------------------------------------
(* Refresh requests served side by side (several workers on one database). *)

NextRace ==
    \/ \E e \in Emails, pw \in Passwords :
           /\ login(e, pw).status = 200 => nextSession <= RaceSessions
           /\ Login(e, pw)
           /\ UNCHANGED steps
    \/ \E p \in Procs, t \in Tokens : RefreshStart(p, t) /\ UNCHANGED steps
    \/ \E p \in Procs : RefreshSelect(p) /\ UNCHANGED steps
    \/ \E p \in Procs : RefreshDelete(p) /\ UNCHANGED steps
    \/ \E p \in Procs : nextSession <= RaceSessions /\ RefreshSetTokens(p)
                           /\ UNCHANGED steps
    \/ \E p \in Procs : RefreshAbort(p) /\ UNCHANGED steps

SpecRace == Init /\ [][NextRace]_vars

----------------------------------------------------------------------------
(* Requests served side by side while the clock moves by the time a        *)
(* request spends in flight, or by nearly the time to live of a cache      *)
(* entry.                                                                  *)

\* The requests of the protected endpoints of routes/auth.py and
\* routes/users.py that write, and one that only resolves its caller.
Requests ==
    {[op |-> "get_current_user", arg |-> NoArg], [op |-> "logout", arg |-> NoArg]}
    \cup {[op |-> "set_active_status",
           arg |-> [NoArg EXCEPT !.user_id = id, !.is_active = a]] :
             id \in {1}, a \in {FALSE}}
    \cup {[op |-> "set_role", arg |-> [NoArg EXCEPT !.user_id = id, !.role = r]] :
             id \in {1}, r \in {ROLE_MODERATOR}}

\* Each of the two steps of the clock is taken once.
StaleClock == {a * Latency + b * (REDIS_EXPIRE - 1) : a \in 0..1, b \in 0..1}

NextStale ==
    \/ \E e \in Emails :
           /\ nextSession <= StaleSessions
           /\ Login(e, "Passw0rd!")
           /\ UNCHANGED steps
    \/ \E p \in Procs, t \in AccessTokens, q \in Requests :
           steps < StaleSteps /\ RequestStart(p, q.op, t, q.arg)
    \/ \E p \in Procs, t \in {pr.refresh : pr \in issued} :
           /\ steps < StaleSteps
           /\ nextSession <= StaleSessions
           /\ RefreshToken(p, t)
    \/ AsyncRequestStep
    \/ RefreshStep
    \/ CleanAccessTokens /\ UNCHANGED steps
    \/ \E d \in {Latency, REDIS_EXPIRE - 1} :
           now + d \in StaleClock /\ Tick(d)

SpecStale == Init /\ [][NextStale]_vars

----------------------------------------------------------------------------
(* Requests served while Redis refuses writes: the command raises, nothing *)
(* in update_user_in_redis, get_current_user or the routes catches it, and *)
(* the request ends with the server's answer to an unhandled exception.    *)
(* What the handler committed to the store before the write stays.         *)

INTERNAL_SERVER_ERROR == "Internal Server Error"

\* The command the request of p awaits raises.
RedisRefuses(p) ==
    /\ pc[p] \in {"cache_write", "redis"}
    /\ RequestEnd(p, loc[p].op, loc[p].token, 500, <<INTERNAL_SERVER_ERROR>>, 0)
    /\ UNCHANGED <<users, refreshTokens, logoutTokens, cache, now, nextUserId,
                   nextSession, issued, steps, committed, content>>

NextRedisDown ==
    \/ steps < RedisDownSteps /\
         \/ \E e \in Emails, pw \in Passwords :
                /\ login(e, pw).status = 200 => nextSession <= MaxSessions
                /\ Login(e, pw)
                /\ steps' = steps + 1
         \/ \E p \in Procs, t \in AccessTokens : GetCurrentUser(p, t)
         \/ \E p \in Procs, t \in AccessTokens, body \in UserIns : UpdateUser(p, t, body)
         \/ \E p \in Procs, t \in AccessTokens, url \in AvatarUrls :
                UpdateUserAvatar(p, t, url)
         \/ \E p \in Procs, t \in AccessTokens, id \in UserIds, r \in UserRoleInEnum :
                SetRole(p, t, id, r)
    \/ RequestStep
    \/ \E p \in Procs : RedisRefuses(p)

SpecRedisDown == Init /\ [][NextRedisDown]_vars

----------------------------------------------------------------------------
(* Properties *)

\* The user a token pair was issued to, as the store holds it now.
OwnerOf(p) == {u \in users : u.id = p.owner}

(* C1: every successful resolve of an access token returns the user with   *)
(* the id of the user the token was issued to; checked for a resolve that  *)
(* arrives when no request is in flight.                                   *)
C1_ResolveReturnsTokenOwner ==
    Idle =>
    \A p \in issued :
        LET cur == get_current_user(p.access) IN
        cur.status = 200 => \A u \in cur.user : u.id = p.owner

(* C2: a refresh token is redeemed at most once: no two token pairs were   *)
(* ever issued in exchange for the same refresh token.                     *)
C2_RefreshRedeemedOnce ==
    \A p1, p2 \in issued :
        (p1.parent # {} /\ p1.parent = p2.parent) => p1 = p2

(* C4: while the store holds is_active = false for a user, resolve of a    *)
(* valid, non-blacklisted access token of that user returns Forbidden      *)
(* "User is banned." and never the principal; checked for a resolve that  *)
(* arrives when no request is in flight.                                   *)
C4_BannedUserNeverResolved ==
    Idle =>
    \A p \in issued :
        LET t == p.access
            cur == get_current_user(t)
        IN  ( /\ jwt_decode_ok(t)
              /\ ~is_user_logout(t)
              /\ \E u \in OwnerOf(p) : u.email = t.sub /\ ~u.is_active )
            => (cur.status = 403 /\ cur.detail = <<BANNED_USER>> /\ cur.user = {})

(* C10: after a completed operation that writes a User record, every cache *)
(* entry that holds a snapshot of that user equals the stored record.      *)
UserWrites ==
    {"update_user", "update_user_avatar", "set_role", "set_active_status",
     "delete_user"}

C10_CacheFollowsUserWrites ==
    (resp.op \in UserWrites /\ resp.status = 200)
        => \A e \in cache : e.user.id = resp.uid => e.user \in users


(* C11: once a change of role or is_active of a user was committed at time *)
(* t, no resolve at a time later than t + REDIS_EXPIRE returns a principal *)
(* with a role or is_active other than the stored one.                     *)
C11_StaleAtMostTTL ==
    \A t \in AccessTokens :
        LET cur == get_current_user(t) IN
        cur.status = 200 =>
            \A u \in cur.user, w \in committed :
                (w.uid = u.id /\ now > w.at + REDIS_EXPIRE) =>
                    \A v \in get_user_by_id(u.id) :
                        v.role = u.role /\ v.is_active = u.is_active


(* C12: resolve returns a principal only for a user that has a record in   *)
(* the store: after delete_user has completed no resolve returns the       *)
(* deleted user; checked for a resolve that arrives when no request is in  *)
(* flight.                                                                 *)
C12_ResolvedUserIsStored ==
    Idle =>
    \A t \in AccessTokens :
        LET cur == get_current_user(t) IN
        cur.status = 200 => \A u \in cur.user : get_user_by_id(u.id) # {}

\* The status the request of p answers with when the command it awaits
\* succeeds, and so do those after it.
NormalStatus(p) ==
    IF pc[p] = "redis" THEN loc[p].status
    ELSE LET cur == check_current_user(loc[p].token,
                                       CHOOSE u \in loc[p].user : TRUE,
                                       loc[p].session, cache)
         IN  route(loc[p].op, loc[p].token, cur, loc[p].arg,
                   [storage |-> "ok", order |-> <<>>]).status

(* C13: a request whose cache write fails still gets the result it gets   *)
(* when the write succeeds: for the write of resolve on a cache miss and   *)
(* for the writes of update_user, of update_user_avatar and of set_role    *)
(* after their commit.                                                     *)
C13_CacheWriteFailureTolerated ==
    [][\A p \in Procs : RedisRefuses(p) => resp'.status = NormalStatus(p)]_vars

(* C14: every LogoutAccessToken row has expires_at equal to the expiry     *)
(* claim of the access token it holds, so no row expires later than the    *)
(* token it blocks.                                                        *)
C14_BlacklistExpiryIsTokenExpiry ==
    \A row \in logoutTokens : row.expires_at = row.logout_access_token.exp

(* C15: refresh replaces the row of the presented token by the row of the *)
(* new pair in one step: in every state, a refresh token handed to a       *)
(* client whose row is gone has a replacement pair issued for it.          *)
C15_RefreshReplacesAtomically ==
    \A p \in issued :
        (\A row \in refreshTokens : row.refresh_token # p.refresh)
            => \E q \in issued : q.parent = {p.refresh}

(* C5: after a successful login the access token and the refresh token of  *)
(* the response carry the same session_id, and the store holds a           *)
(* RefreshToken row with that session_id, that refresh token and the id of *)
(* the user who logged in.                                                 *)
C5_LoginBindsSession ==
    (resp.op = "login" /\ resp.status = 200) =>
        /\ resp.pairs # {}
        /\ \A p \in resp.pairs :
             /\ p.access.session_id = p.refresh.session_id
             /\ \E u \in get_user_by_email(p.access.sub) :
                  [refresh_token |-> p.refresh, user_id |-> u.id,
                   session_id |-> p.access.session_id,
                   expires_at |-> p.refresh.exp] \in refreshTokens

C5_Witness ==
    /\ resp.op = "login" /\ resp.status = 200
    /\ Cardinality(refreshTokens) = 2

(* C6: a login with an unknown email and a login with a known email and a  *)
(* wrong password get the same response, 401 "Incorrect username or        *)
(* password", and neither creates a RefreshToken row.                      *)
C6_LoginFailuresIndistinguishable ==
    \A e1, e2 \in Emails, pw1, pw2 \in Passwords :
        ( /\ get_user_by_email(e1) = {}
          /\ \E u \in get_user_by_email(e2) : ~verify_password(pw2, u.password) )
        => LET r1 == login(e1, pw1)
               r2 == login(e2, pw2)
           IN  /\ r1.status = 401
               /\ r1.detail = <<INCORRECT_USERNAME_OR_PASSWORD>>
               /\ r2.status = r1.status /\ r2.detail = r1.detail
               /\ r1.pairs = {} /\ r2.pairs = {} /\ r1.uid = r2.uid
               /\ r1.refreshTokens = refreshTokens
               /\ r2.refreshTokens = refreshTokens

\* A wrong password was just refused while a row of an earlier login exists
\* and some email is unknown.
C6_Witness ==
    /\ resp.op = "login" /\ resp.status = 401
    /\ refreshTokens # {}
    /\ \E e \in Emails : get_user_by_email(e) = {}
    /\ \E e \in Emails : get_user_by_email(e) # {}

(* C7: a login with the right password of a banned user returns 403        *)
(* "User is banned.", no tokens, and creates no RefreshToken row.          *)
C7_BannedLoginRefused ==
    \A e \in Emails, pw \in Passwords :
        (\E u \in get_user_by_email(e) :
            verify_password(pw, u.password) /\ ~u.is_active)
        => LET r == login(e, pw) IN
           /\ r.status = 403
           /\ r.detail = <<BANNED_USER>>
           /\ r.pairs = {}
           /\ r.refreshTokens = refreshTokens

C7_Witness ==
    /\ resp.op = "login" /\ resp.status = 403
    /\ \E u \in users : ~u.is_active

(* C8: refresh checks, in this order, the signature and expiry (401        *)
(* "Could not validate credentials"), the scope (401 "Invalid scope"), the *)
(* user of the embedded email (404 "User not found"), the row (404 "Token  *)
(* not found"), and a failed refresh deletes and creates no row.           *)
C8_RefreshFailureOrder ==
    \A t \in Tokens :
        LET r == refresh_token(t)
            found == get_user_by_email(t.sub)
        IN  /\ ~jwt_decode_ok(t) =>
                 (r.status = 401 /\ r.detail = <<COULD_NOT_VALIDATE_CREDENTIALS>>)
            /\ (jwt_decode_ok(t) /\ t.scope = ACCESS_TOKEN) =>
                 (r.status = 401 /\ r.detail = <<INVALID_SCOPE>>)
            /\ (jwt_decode_ok(t) /\ t.scope = REFRESH_TOKEN /\ found = {}) =>
                 (r.status = 404 /\ r.detail = <<USER_NOT_FOUND>>)
            /\ ( /\ jwt_decode_ok(t) /\ t.scope = REFRESH_TOKEN /\ found # {}
                 /\ \A u \in found : find_refresh_token(refreshTokens, t, u.id) = {} )
                 => (r.status = 404 /\ r.detail = <<TOKEN_NOT_FOUND>>)
            /\ r.status # 200 =>
                 (r.refreshTokens = refreshTokens /\ r.pairs = {})

\* A refresh was just refused for its missing row, and clients hold a token
\* for each of the other three refusals.
C8_Witness ==
    /\ resp.op = "refresh_token" /\ resp.status = 404
    /\ resp.detail = <<TOKEN_NOT_FOUND>>
    /\ refreshTokens # {}
    /\ \E t \in Tokens : t.signed /\ ~jwt_decode_ok(t) /\ t.scope = REFRESH_TOKEN
    /\ \E t \in Tokens : jwt_decode_ok(t) /\ t.scope = ACCESS_TOKEN
    /\ \E t \in Tokens : jwt_decode_ok(t) /\ t.scope = REFRESH_TOKEN
                            /\ get_user_by_email(t.sub) # {}


\* The three projections the claim names, as the fields they show.
FullFields == {"id", "username", "email", "role", "avatar", "is_active"}
ModeratorFields == {"id", "username", "avatar", "is_active"}
PublicFields == {"id", "username", "avatar"}

\* body shows exactly these fields of target.
IsView(body, target, fields) ==
    DOMAIN body = fields /\ \A f \in fields : body[f] = target[f]

\* The projection of target for caller; own tells whether the caller's own
\* record is shown in full.
ViewFor(caller, target, own) ==
    IF caller.role = ROLE_ADMIN \/ (own /\ caller.id = target.id) THEN FullFields
    ELSE IF caller.role = ROLE_MODERATOR THEN ModeratorFields
    ELSE PublicFields

\* get_user and get_users show every record to every resolved caller in
\* the projection ViewFor gives, in whatever order the store returns the
\* rows of get_users.
ViewsFollow(ownInGetUsers) ==
    \A t \in AccessTokens :
        \A caller \in get_current_user(t).user :
            /\ \A id \in UserIds :
                 \A target \in get_user_by_id(id) :
                     /\ get_user(t, id).status = 200
                     /\ IsView(get_user(t, id).body, target, ViewFor(caller, target, TRUE))
            /\ \A skip \in Skips, limit \in Limits, order \in Orders(users) :
                 LET r == get_users(t, skip, limit, order)
                     rows == get_users_rows(skip, limit, order)
                 IN  /\ r.status = 200
                     /\ Len(r.body) = Len(rows)
                     /\ \A i \in DOMAIN rows :
                          IsView(r.body[i], rows[i],
                                 ViewFor(caller, rows[i], ownInGetUsers))

(* C17 as stated: in get_user and in get_users alike, a record is shown in *)
(* full when the caller is admin or it is the caller's own, else in the    *)
(* moderator view to a moderator, else in the public view.                 *)
C17_ViewsAsStated == ViewsFollow(TRUE)

(* C17 as amended: get_user shows a record in full when the caller is      *)
(* admin or it is the caller's own, else in the moderator view to a        *)
(* moderator, else in the public view; get_users shows every record, the   *)
(* caller's own included, by the caller's role alone: in full to an admin, *)
(* in the moderator view to a moderator, in the public view to the rest.   *)
C17_ViewsByRoleAndOwnership == ViewsFollow(FALSE)

\* The caller a response was made for.
CallerId(token) ==
    LET cur == get_current_user(token) IN
    IF cur.user = {} THEN 0 ELSE (CHOOSE u \in cur.user : TRUE).id

\* A moderator just listed the users, its own record among them.
C17_Witness ==
    /\ resp.op = "get_users" /\ resp.status = 200
    /\ \E u \in users : u.id = resp.uid /\ u.role = ROLE_MODERATOR
    /\ \E t \in AccessTokens :
         /\ CallerId(t) = resp.uid
         /\ \E order \in Orders(users) :
              \E i \in DOMAIN get_users(t, 0, 10, order).body :
                  get_users(t, 0, 10, order).body[i].id = resp.uid


(* C18: delete_user by a resolved caller on an existing target succeeds    *)
(* exactly when the caller is admin or the target is the caller; in every  *)
(* other case it returns 403 and the users, the refresh tokens and the     *)
(* cache stay as they were; a moderator never deletes an admin.            *)
C18_DeleteUserPolicy ==
    Idle =>
    \A t \in AccessTokens :
        \A caller \in get_current_user(t).user :
            \A id \in UserIds :
                \A target \in get_user_by_id(id) :
                    LET r == delete_user(t, id)
                        allowed == caller.role = ROLE_ADMIN \/ caller.id = target.id
                    IN  /\ allowed =>
                             (r.status = 200 /\ \A u \in r.users : u.id # id)
                        /\ ~allowed =>
                             ( /\ r.status = 403
                               /\ r.users = users
                               /\ r.refreshTokens = refreshTokens
                               /\ r.cache = get_current_user(t).cache )
                        /\ (caller.role = ROLE_MODERATOR /\ target.role = ROLE_ADMIN)
                             => (r.status = 403 /\ target \in r.users)

\* What set_active_status does for a resolved caller and an existing
\* target, given who is allowed.
ActiveStatusFollows(Allowed(_, _)) ==
    \A t \in AccessTokens :
        \A caller \in get_current_user(t).user :
            \A id \in UserIds, a \in BOOLEAN :
                \A target \in get_user_by_id(id) :
                    LET r == set_active_status(t, id, a) IN
                    IF Allowed(caller, target)
                    THEN /\ r.status = 200
                         /\ \E u \in r.users : u.id = id /\ u.is_active = a
                    ELSE /\ r.status = 403
                         /\ target \in r.users

\* The rule of the claim: admin or the account's owner, but never a
\* moderator on an admin.
AdminOrSelf(caller, target) ==
    /\ caller.role = ROLE_ADMIN \/ caller.id = target.id
    /\ ~(caller.role = ROLE_MODERATOR /\ target.role = ROLE_ADMIN)

\* The rule of the amended claim: admin or moderator, but never a moderator
\* on an admin.
AdminOrModerator(caller, target) ==
    /\ caller.role \in {ROLE_ADMIN, ROLE_MODERATOR}
    /\ ~(caller.role = ROLE_MODERATOR /\ target.role = ROLE_ADMIN)

(* C19 as stated: set_active_status is allowed exactly when the caller is  *)
(* admin or the target is the caller, except a moderator on an admin;      *)
(* everyone else gets 403 and the target's is_active is unchanged.         *)
C19_ActiveStatusAdminOrSelf == ActiveStatusFollows(AdminOrSelf)

(* C19 as amended: set_active_status is allowed exactly when the caller's  *)
(* role is admin or moderator, except a moderator on an admin; every other *)
(* caller, the account's owner included, gets 403 and the target's         *)
(* is_active is unchanged.                                                 *)
C19_ActiveStatusAdminOrModerator == ActiveStatusFollows(AdminOrModerator)

\* A standard user, whose account is in the store, was just refused.
C19_Witness ==
    /\ resp.op = "set_active_status" /\ resp.status = 403
    /\ resp.detail = <<FORBIDDEN_FOR_USER>>
    /\ \E t \in AccessTokens :
         \E caller \in get_current_user(t).user :
             caller.role = ROLE_STANDARD /\ get_user_by_id(caller.id) # {}

(* C20: set_active_status on a target whose role is admin returns 403 and  *)
(* leaves the target as it is when the caller is a moderator, and succeeds *)
(* with the stored is_active equal to the requested value when the caller  *)
(* is an admin: for a request served at once, and for every request that   *)
(* has just answered 200 on a target that is an admin.                     *)
C20_ModeratorNeverOnAdmin ==
    /\ \A t \in AccessTokens :
         \A caller \in get_current_user(t).user :
             \A id \in UserIds, a \in BOOLEAN :
                 \A target \in get_user_by_id(id) :
                     target.role = ROLE_ADMIN =>
                         LET r == set_active_status(t, id, a) IN
                         /\ caller.role = ROLE_MODERATOR =>
                              ( /\ r.status = 403
                                /\ r.detail = <<FORBIDDEN_OPERATION_ON_ADMIN_ACCOUNT>>
                                /\ target \in r.users )
                         /\ caller.role = ROLE_ADMIN =>
                              ( /\ r.status = 200
                                /\ \E u \in r.users : u.id = id /\ u.is_active = a )
    /\ (resp.op = "set_active_status" /\ resp.status = 200) =>
           \A u \in get_user_by_id(resp.uid) :
               u.role = ROLE_ADMIN => u.is_active = (resp.detail[2] = "active")

(* C16: a logout presented with an access token whose expiry has passed   *)
(* returns 401 and leaves the RefreshToken and LogoutAccessToken tables    *)
(* unchanged, and no LogoutAccessToken row was created later than the      *)
(* expiry of its token.                                                    *)
C16_NoBlacklistRowForExpiredToken ==
    /\ \A t \in AccessTokens :
         t.exp < now =>
             LET r == logout(t) IN
             /\ r.status = 401
             /\ r.refreshTokens = refreshTokens
             /\ r.logoutTokens = logoutTokens
    /\ \A row \in logoutTokens :
         row.expires_at - Minutes(ACCESS_TOKEN_EXPIRE) <= row.logout_access_token.exp

\* A logout was just refused while a client holds an expired access token
\* whose session still has its RefreshToken row.
C16_Witness ==
    /\ resp.op = "logout" /\ resp.status = 401
    /\ resp.detail = <<COULD_NOT_VALIDATE_CREDENTIALS>>
    /\ \E p \in issued :
         /\ p.access.exp < now
         /\ \E u \in get_user_by_email(p.access.sub) :
              find_session(refreshTokens, p.access.session_id, u.id) # {}

\* The step just taken is one of a successful logout: its commit, or the
\* command it sends to Redis after it with the response.
LogoutDone(p) ==
    /\ loc[p].op = "logout"
    /\ pc'[p] # pc[p]
    /\ \/ pc[p] = "route" /\ logoutTokens' # logoutTokens
       \/ pc[p] = "redis"

\* The access tokens clients hold that were not presented to a logout that
\* succeeded or is in flight.
OtherTokens ==
    {t \in AccessTokens :
        t \notin loggedOut /\ \A p \in Procs : loc[p].op = "logout" => t # loc[p].token}

(* C3: after a successful logout with T every resolve of T, while T is     *)
(* unexpired, returns 401 "You need to log in again", and the resolve of   *)
(* another session's token keeps succeeding.                               *)
C3_LoggedOutTokenAnswer ==
    \A t \in loggedOut :
        jwt_decode_ok(t) =>
            LET cur == get_current_user(t) IN
            cur.status = 401 /\ cur.detail = <<LOG_IN_AGAIN>>

C3_LogoutRevokesTokenAsStated ==
    [][ /\ C3_LoggedOutTokenAnswer'
        /\ \A p \in Procs :
             LogoutDone(p) =>
                 \A t \in OtherTokens :
                     get_current_user(t).status = 200
                         => get_current_user(t)'.status = 200 ]_vars

(* C9: after a successful logout of a session its refresh token is never   *)
(* redeemed again: refresh does not return a pair, and returns 404 whenever *)
(* the token passes the codec; the logout leaves every other session's     *)
(* refresh token as redeemable as it was; a logout that finds no row for   *)
(* (session_id, caller id) returns 404 "Token not found".                  *)
C9_LoggedOutSessionDead ==
    /\ \A p \in issued :
         p.access \in loggedOut =>
             LET r == refresh_token(p.refresh) IN
             /\ r.status # 200
             /\ r.pairs = {}
             /\ jwt_decode_ok(p.refresh) => r.status = 404
    /\ \A t \in AccessTokens :
         LET cur == get_current_user(t) IN
         ( /\ cur.status = 200
           /\ \A u \in cur.user : find_session(refreshTokens, t.session_id, u.id) = {} )
         => LET r == logout(t) IN
            /\ r.status = 404 /\ r.detail = <<TOKEN_NOT_FOUND>>
            /\ r.refreshTokens = refreshTokens /\ r.logoutTokens = logoutTokens

C9_LogoutRevokesSession ==
    /\ []C9_LoggedOutSessionDead
    /\ [][ \A q \in Procs :
               LogoutDone(q) =>
                   \A p \in issued :
                       ( /\ p.access \in OtherTokens
                         /\ refresh_token(p.refresh).status = 200 )
                       => refresh_token(p.refresh)'.status = 200 ]_vars

\* The refresh token of a logged-out session was just refused with 404 while
\* another session of the same user can still be refreshed.
C9_Witness ==
    /\ resp.op = "refresh_token" /\ resp.status = 404
    /\ \E p, q \in issued :
         /\ p.access \in loggedOut /\ jwt_decode_ok(p.refresh)
         /\ q.owner = p.owner /\ q.access \notin loggedOut
         /\ refresh_token(q.refresh).status = 200

\* The stored record of the user an access token was issued to.
StoredCaller(t) == {u \in users : \E p \in issued : p.access = t /\ p.owner = u.id}

(* C21: set_role changes a stored role only when the caller's stored role  *)
(* is admin at the time of the call; a call by a user whose stored role is *)
(* moderator or standard leaves every role unchanged and, when the caller  *)
(* is resolved, returns 403.                                               *)
C21_SetRoleOnlyByStoredAdmin ==
    Idle =>
    \A t \in AccessTokens, id \in UserIds, role \in UserRoleInEnum :
        LET r == set_role(t, id, role) IN
        /\ r.users # users => \E c \in StoredCaller(t) : c.role = ROLE_ADMIN
        /\ \A c \in StoredCaller(t) :
             c.role # ROLE_ADMIN =>
                 /\ r.users = users
                 /\ get_current_user(t).status = 200 => r.status = 403

\* The callers that hold a token that resolves.
Callers(t) == get_current_user(t).user

\* A list of tags names twice, as the store keeps names, a tag the photo
\* does not have.
NamesNewTagTwice(info, photo) ==
    \E names \in info.tags :
        \E i, j \in DOMAIN names :
            /\ i # j
            /\ strip_lower(names[i]) = strip_lower(names[j])
            /\ \A tag \in tags :
                 tag.id \in photo.tags => tag.name # strip_lower(names[i])

\* What update and delete of photos and comments do for a resolved caller,
\* given who may delete a comment.
ContentMutationsFollow(MayDeleteComment(_, _)) ==
    \A t \in AccessTokens :
        \A caller \in Callers(t) :
            /\ \A photo \in photos :
                 /\ \A info \in PhotoIns :
                      LET r == update_photo(t, photo.id, info) IN
                      IF caller.id # photo.user_id
                      THEN r.status = 403 /\ r.photos = photos /\ r.tags = tags
                      ELSE /\ r.status = IF NamesNewTagTwice(info, photo)
                                         THEN 500 ELSE 200
                           /\ \E q \in r.photos :
                                /\ q.id = photo.id
                                /\ q.description = info.description
                                /\ r.status = 500 => q.tags = photo.tags
                 /\ \A storage \in StorageOutcomes :
                      LET r == delete_photo(t, photo.id, storage) IN
                      IF caller.id = photo.user_id \/ caller.role = ROLE_ADMIN
                      THEN /\ r.status = IF storage = "delete_error" THEN 502 ELSE 200
                           /\ r.photos = photos \ {photo}
                      ELSE /\ r.status = 403
                           /\ r.photos = photos /\ r.comments = comments
                           /\ r.ratings = ratings
            /\ \A comment \in comments :
                 /\ \A c \in Contents :
                      LET r == update_comment(t, comment.id, c) IN
                      IF caller.id = comment.user_id
                      THEN /\ r.status = 200
                           /\ [comment EXCEPT !.content = c] \in r.comments
                      ELSE r.status = 403 /\ r.comments = comments
                 /\ LET r == delete_comment(t, comment.id) IN
                    IF MayDeleteComment(caller, comment)
                    THEN r.status = 200 /\ r.comments = comments \ {comment}
                    ELSE r.status = 403 /\ r.comments = comments

OwnerOrAdmin(caller, entity) ==
    caller.id = entity.user_id \/ caller.role = ROLE_ADMIN

AdminOrModeratorRole(caller, entity) ==
    caller.role \in {ROLE_ADMIN, ROLE_MODERATOR}

(* C22 as stated: updating a photo or a comment is open to its owner only, *)
(* deleting a photo or a comment to its owner or an admin; everyone else   *)
(* gets 403 and the entity is unchanged, and the owner is admitted         *)
(* whatever its role.  An admitted update of a photo answers 200, or 500   *)
(* when its list names a tag new to the photo twice, the description being *)
(* stored either way; an admitted deletion of a photo removes the row and  *)
(* answers 200, or 502 when the photo storage fails after the commit.      *)
C22_OwnerOrAdminMutates == ContentMutationsFollow(OwnerOrAdmin)

(* C22 as amended: updating a photo or a comment is open to its owner      *)
(* only, and deleting a photo to its owner or an admin, with 403 and the   *)
(* entity unchanged for everyone else; an admitted update of a photo       *)
(* answers 200, or 500 when its list names a tag new to the photo twice,   *)
(* the description being stored either way; an admitted deletion of a      *)
(* photo removes the row and answers 200, or 502 when the photo storage    *)
(* fails after the commit; deleting a comment succeeds exactly for a       *)
(* caller whose role is admin or moderator, the owner or not, and every    *)
(* standard caller, the comment's owner included, gets 403 and the comment *)
(* is unchanged.                                                           *)
C22_CommentDeletionByRole == ContentMutationsFollow(AdminOrModeratorRole)

\* A standard user was just refused the deletion of a comment of its own.
C22_Witness ==
    /\ resp.op = "delete_comment" /\ resp.status = 403
    /\ resp.detail = <<FORBIDDEN_FOR_USER>>
    /\ \E t \in AccessTokens :
         \E caller \in Callers(t) :
             /\ caller.role = ROLE_STANDARD
             /\ \E comment \in comments : comment.user_id = caller.id

\* What the deletion of a comment or a tag the caller does not own does,
\* given the roles that may delete a tag.
ModerationFollows(tagRoles) ==
    \A t \in AccessTokens :
        \A caller \in Callers(t) :
            /\ \A comment \in comments :
                 caller.id # comment.user_id =>
                     LET r == delete_comment(t, comment.id) IN
                     IF caller.role \in {ROLE_ADMIN, ROLE_MODERATOR}
                     THEN r.status = 200 /\ r.comments = comments \ {comment}
                     ELSE r.status = 403 /\ r.comments = comments
            /\ \A tag \in tags :
                 LET r == delete_tag(t, tag.id) IN
                 IF caller.role \in tagRoles
                 THEN r.status = 200 /\ r.tags = tags \ {tag}
                 ELSE r.status = 403 /\ r.tags = tags /\ r.photos = photos

(* C23 as stated: deleting a comment or a tag the caller does not own is   *)
(* allowed exactly when the caller's role is admin or moderator; a         *)
(* standard caller gets 403 and the comment or tag is unchanged.           *)
C23_ModerationByAdminOrModerator == ModerationFollows({ROLE_ADMIN, ROLE_MODERATOR})

(* C23 as amended: deleting a comment the caller does not own is allowed   *)
(* exactly when the caller's role is admin or moderator, and deleting a    *)
(* tag exactly when the caller's role is admin; every other caller gets    *)
(* 403 and the comment or tag is unchanged.                                *)
C23_TagDeletionByAdminOnly == ModerationFollows({ROLE_ADMIN})

\* A moderator was just refused the deletion of a tag, while there is a
\* comment it does not own.
C23_Witness ==
    /\ resp.op = "delete_tag" /\ resp.status = 403
    /\ resp.detail = <<FORBIDDEN_FOR_USER_AND_MODERATOR>>
    /\ tags # {}
    /\ \E t \in AccessTokens :
         \E caller \in Callers(t) :
             /\ caller.role = ROLE_MODERATOR
             /\ \E comment \in comments : comment.user_id # caller.id

\* The rating rows of a user on a photo.
RatingsOf(table, photo_id, user_id) ==
    {r \in table : r.photo_id = photo_id /\ r.user_id = user_id}

(* C24: rate_photo by a resolved caller who does not own the photo         *)
(* succeeds and leaves exactly one Rating row for (photo, caller), with    *)
(* the score of the call, and the other rows as they were; rate_photo by   *)
(* the owner returns 403 and leaves the ratings unchanged; no (photo,      *)
(* user) has more than one row.                                            *)
C24_OneRatingPerUserAndPhoto ==
    /\ \A a, b \in ratings :
         (a.photo_id = b.photo_id /\ a.user_id = b.user_id) => a = b
    /\ \A t \in AccessTokens :
         \A caller \in Callers(t) :
             \A photo \in photos, score \in Scores :
                 LET r == rate_photo(t, photo.id, score)
                     mine == RatingsOf(r.ratings, photo.id, caller.id)
                 IN  IF caller.id # photo.user_id
                     THEN /\ r.status = 200
                          /\ Cardinality(mine) = 1
                          /\ \A x \in mine : x.score = score
                          /\ r.ratings \ mine =
                                 ratings \ RatingsOf(ratings, photo.id, caller.id)
                     ELSE r.status = 403 /\ r.ratings = ratings

----------------------------------------------------------------------------
(* C25: once a logout has blacklisted access token T, no resolve of T      *)
(* succeeds any more, whatever the sweep of the blacklist and the clock    *)
(* did in between: as long as T's own expiry has not passed the            *)
(* LogoutAccessToken row of T is in the table, a sweep run now removes     *)
(* only rows of tokens whose expiry has passed, and a resolve of T that    *)
(* arrived after the logout and has its user does not return it.           *)
C25_BlacklistOutlivesToken ==
    /\ \A t \in loggedOut :
         /\ get_current_user(t).status # 200
         /\ ~(t.exp < now) => is_user_logout(t)
    /\ \A row \in logoutTokens \ delete_exp_tokens(logoutTokens) :
         row.logout_access_token.exp < now
    /\ \A p \in Procs :
         (pc[p] = "route" /\ loc[p].late) =>
             check_current_user(loc[p].token, CHOOSE u \in loc[p].user : TRUE,
                                loc[p].session, cache).status # 200

----------------------------------------------------------------------------
(* C26: a token pair is issued only to a user whose stored is_active is    *)
(* true at the time of issuance: for a banned user neither login nor       *)
(* refresh returns tokens or creates a RefreshToken row.                   *)
C26_NoTokensForBannedUser ==
    \A u \in users :
        ~u.is_active =>
            /\ \A pw \in Passwords :
                 LET r == login(u.email, pw) IN
                 r.pairs = {} /\ r.refreshTokens \subseteq refreshTokens
            /\ \A t \in Tokens :
                 t.sub = u.email =>
                     LET r == refresh_token(t) IN
                     r.pairs = {} /\ r.refreshTokens \subseteq refreshTokens

----------------------------------------------------------------------------
(* C27: once a set_role(target, r) has completed, every resolve of an      *)
(* access token of the target that completes afterwards returns a          *)
(* principal with the stored role r, also when another resolve of the      *)
(* target was in flight (cache miss, store read) while set_role ran.       *)
C27_ResolveSeesSetRole ==
    (\A p \in Procs : loc[p].op # "set_role") =>
    \A t \in AccessTokens :
        \A u \in get_current_user(t).user, w \in committed :
            w.uid = u.id =>
                \A v \in get_user_by_id(u.id) : v.role = u.role

----------------------------------------------------------------------------
(* C28: logout changes the store all or nothing: a successful logout       *)
(* deletes the RefreshToken row of the session and inserts the             *)
(* LogoutAccessToken row of the token in one commit; a logout that fails   *)
(* with 404 "Token not found" (no row for the session id and the caller's  *)
(* id) inserts no LogoutAccessToken row, deletes no RefreshToken row and   *)
(* drops no cache entry; no logout changes one table without the other.    *)
C28_LogoutAllOrNothing ==
    \A t \in AccessTokens :
        LET r == logout(t) IN
        /\ r.status = 200 =>
             /\ \E row \in refreshTokens :
                  /\ row.session_id = t.session_id
                  /\ r.refreshTokens = refreshTokens \ {row}
             /\ \E row \in r.logoutTokens \ logoutTokens :
                  /\ row.logout_access_token = t
                  /\ r.logoutTokens = logoutTokens \cup {row}
        /\ r.status = 404 =>
             /\ r.detail = <<TOKEN_NOT_FOUND>>
             /\ \A u \in get_current_user(t).user :
                  find_session(refreshTokens, t.session_id, u.id) = {}
             /\ r.logoutTokens = logoutTokens
             /\ r.refreshTokens = refreshTokens
             /\ cache \subseteq r.cache
             /\ redis_get(r.cache, t.sub) # {}
        /\ r.status # 200 =>
             r.logoutTokens = logoutTokens /\ r.refreshTokens = refreshTokens

\* A logout has just failed with 404 and left the caller's cache entry in
\* place, after a logout of another session had succeeded.
C28_Witness ==
    /\ resp.op = "logout" /\ resp.status = 404
    /\ loggedOut # {}
    /\ \E p \in issued :
         /\ p.access \notin loggedOut
         /\ logout(p.access).status = 404
         /\ redis_get(cache, p.access.sub) # {}

----------------------------------------------------------------------------
(* C29: after a successful refresh of a session the access token issued    *)
(* before the refresh stays accepted by resolve until its own expiry (the  *)
(* refresh leaves the answer of its resolve as it was, and the token is    *)
(* never on the blacklist), and it can no longer be revoked: a logout      *)
(* presented with it never succeeds and inserts no LogoutAccessToken row;  *)
(* whenever the token resolves, that logout returns 404 "Token not found", *)
(* the replacement RefreshToken row carrying another session_id.           *)
Refreshed == {p \in issued : \E q \in issued : q.parent = {p.refresh}}

\* The positions of a refresh request in flight.
RefreshSteps == {"select", "delete", "set_tokens"}

C29_OldAccessTokenAfterRefresh ==
    \A p \in Refreshed :
        LET cur == get_current_user(p.access)
            out == logout(p.access)
        IN  /\ ~is_user_logout(p.access)
            /\ cur.detail # <<LOG_IN_AGAIN>>
            /\ \A row \in refreshTokens : row.session_id # p.access.session_id
            /\ out.status # 200
            /\ out.logoutTokens = logoutTokens
            /\ cur.status = 200 =>
                   out.status = 404 /\ out.detail = <<TOKEN_NOT_FOUND>>

C29_RefreshKeepsOldAccessToken ==
    /\ []C29_OldAccessTokenAfterRefresh
    /\ [][ \A p \in Procs :
               (pc'[p] # pc[p] /\ {pc[p], pc'[p]} \cap RefreshSteps # {}) =>
                   \A q \in issued :
                       q.refresh \in {loc[p].token, loc'[p].token} =>
                           get_current_user(q.access)'.status
                               = get_current_user(q.access).status ]_vars

----------------------------------------------------------------------------
(* C30: no operation of the API gives the admin role to a user who did not *)
(* have it: a signup creates a user with role standard and is_active true, *)
(* a set_role leaves its target with moderator or standard, and no step of *)
(* a request adds a member to the set of admin users.                      *)
Admins(table) == {u.id : u \in {v \in table : v.role = ROLE_ADMIN}}

C30_HandlersGrantNoAdmin ==
    /\ \A body \in UserIns :
         \A u \in signup(body).users \ users :
             u.role = ROLE_STANDARD /\ u.is_active
    /\ \A t \in AccessTokens, id \in UserIds, role \in UserRoleInEnum :
         LET r == set_role(t, id, role) IN
         /\ r.status = 200 =>
                \A u \in {v \in r.users : v.id = id} :
                    u.role = role /\ u.role \in {ROLE_MODERATOR, ROLE_STANDARD}
         /\ Admins(r.users) \subseteq Admins(users)

C30_AdminsNeverGrow ==
    /\ []C30_HandlersGrantNoAdmin
    /\ [][resp'.op # "create_admin" => Admins(users') \subseteq Admins(users)]_vars

\* An admin has just given the moderator role to a user who signed up.
C30_Witness ==
    /\ resp.op = "set_role" /\ resp.status = 200
    /\ \E u \in users : u.id = resp.uid /\ u.role = ROLE_MODERATOR
    /\ Admins(users) # {}

====
